---- MODULE Spec2Model ----
(***************************************************************************)
(* FlightWall backend: the ingestion pipeline (backend/ingestion/          *)
(* pipeline.py), its Storage transaction (backend/models/base.py) and the  *)
(* in-memory FlightCache (backend/cache.py), as state machines.            *)
(*                                                                         *)
(* Optional values are sequences: <<>> is Python's None, <<v>> a value.    *)
(***************************************************************************)
EXTENDS Integers, Sequences, FiniteSets, TLC

(* ------------------------------ bounds -------------------------------- *)
MaxFrames == 2        \* frames in one source response
MaxCycles == 2        \* ingestion cycles started in one run
MaxCallbacks == 2     \* registered completion callbacks
MaxPolls == 2         \* poll intervals over which the clock is followed

(* ------------------------- program constants -------------------------- *)
CleanupEvery == 30    \* pipeline.py:355
StaleThreshold == 60  \* config.py:64
RetentionHours == 24  \* config.py:77
PollInterval == 10    \* config.py:59

\* object ids (icao24), in the order the source lists them
IdOrder == <<"a1", "b2">>

Ids == {IdOrder[k] : k \in 1..Len(IdOrder)}

IdRank(i) == CHOOSE k \in 1..Len(IdOrder) : IdOrder[k] = i

\* the callbacks the application registers, in the order it registers them
CallbackNames == <<"cb1", "cb2", "cb3">>
\* observer locations (lat, lon) in whole degrees
Locations == {<<40, 0 - 74>>}
\* wall-clock instants of the pipeline runs (seconds); more than
\* StaleThreshold and less than the retention window apart
Instants == {90000, 90100}
\* a contact time older than the retention window at every instant
AncientTime == 90000 - (RetentionHours * 3600) - 600

VARIABLES
    now,                  \* time.time()
    observer_location,    \* IngestionPipeline.observer_location
    running,              \* IngestionPipeline._running
    fetch_count,          \* IngestionPipeline._fetch_count
    error_count,          \* IngestionPipeline._error_count
    callbacks,            \* IngestionPipeline._on_update_callbacks
    pc,                   \* position of the loop thread (IngestionPipeline._thread)
    states,               \* fetch_and_process: states
    api_time,             \* fetch_and_process: api_time
    session,              \* fetch_and_process: the open Session, <<>> when none
    cb_idx,               \* fetch_and_process: position of the callback iteration
    result,               \* return value of the last fetch_and_process
    flight_states,        \* Storage: committed rows of table flight_states
    position_history,     \* Storage: committed rows of table position_history
    cycles,               \* number of cycles started (bounded by MaxCycles)
    stop_called,          \* stop() was called since the last start_background()
    outcome,              \* how the current/last cycle ended
    pre,                  \* Storage and counters when the current cycle began
    visible_log,          \* statements of the current cycle visible to readers
    cb_calls,             \* callback invocations of the current cycle
    cache,                \* FlightCache._cache, in dict (insertion) order
    hits,                 \* FlightCache._hits
    misses,               \* FlightCache._misses
    last_refresh,         \* FlightCache._last_refresh
    rpc,                  \* position of the thread in refresh_from_database
    flights,              \* refresh_from_database: rows read, not yet enriched
    new_cache,            \* refresh_from_database: new_cache
    ops,                  \* number of client calls on the cache (bounded by MaxOps)
    ret,                  \* the last completed cache call: name, argument,
                          \* result, age of the entry looked up, and (get_all)
                          \* the position of the refresh thread at the call
    r_pre,                \* the map when the refresh in progress was called
    r_mut,                \* another call changed the map since then
    last_read,            \* ids of the rows read by the last completed refresh
    authenticated,        \* OpenSkyClient.auth is set
    last_request_time,    \* OpenSkyClient.last_request_time
    kpc,                  \* position of the caller in OpenSkyClient.get_states
    sent,                 \* instants at which a request left for the source
    gpc,                  \* position of each client thread in FlightCache.get
    gtmp,                 \* each client thread's operand of _misses += 1
    gets,                 \* number of completed FlightCache.get calls
    args,                 \* the arguments a function under study is applied to
    value,                \* what it returned, once applied
    an_cache,             \* TelemetryAnalyzer._cache of each analyzer instance
    an_calls,             \* number of analyzer calls made (bounded by MaxOps)
    an_ret,               \* the last analyze_flight call: analyzer, id, result
                          \* and whether it read Storage
    an_map,               \* update_flight_states_with_analytics: analytics_map,
                          \* between the analysis and the write
    an_count,             \* what update_flight_states_with_analytics returned
    local,                \* fetch_and_process: what the cycle in progress has
                          \* read of the observer location and built from it
    thread,               \* IngestionPipeline._thread
    loops,                \* the loop threads started: position of each
    callers,              \* position of each thread calling start_background
                          \* or stop
    flight_info_service,  \* the FlightInfoService of the application: its
                          \* configuration, _cache, _last_request_time and
                          \* _requests_today
    route_ret,            \* the last get_route_info call: callsign, result
                          \* and the requests it sent to the API
    ticker_state,         \* api/flights.py: _ticker_state
    requests              \* the ticker requests being served: position,
                          \* flights and what was returned, per thread

pvars == <<now, observer_location, running, fetch_count, error_count, callbacks,
           pc, states, api_time, session, cb_idx, result, flight_states,
           position_history, cycles, stop_called, outcome, pre, visible_log,
           cb_calls>>

kvars == <<authenticated, last_request_time, kpc, sent>>

tvars == <<gpc, gtmp, gets>>

lvars == <<local, thread, loops, callers>>

svars == <<flight_info_service, route_ret, ticker_state, requests>>

avars == <<args, value, an_cache, an_calls, an_ret, an_map, an_count>>

cvars == <<cache, hits, misses, last_refresh, rpc, flights, new_cache, ops,
           ret, r_pre, r_mut, last_read, kvars, tvars, lvars, svars, avars>>

vars == <<pvars, cvars>>

(* ------------------------------ helpers ------------------------------- *)
Range(s) == {s[i] : i \in 1..Len(s)}

RECURSIVE SelectSeqBy(_, _)
\* the subsequence of s whose elements are not in the set drop
SelectSeqBy(s, drop) ==
    IF s = <<>> THEN <<>>
    ELSE IF Head(s) \in drop THEN SelectSeqBy(Tail(s), drop)
         ELSE <<Head(s)>> \o SelectSeqBy(Tail(s), drop)

\* Python's "x or d" on an optional integer: None and 0 are falsy
OrElse(o, d) == IF o = <<>> THEN d ELSE IF o[1] = 0 THEN d ELSE o[1]

(* --------------------------- SourceAdapter ---------------------------- *)
\* one parsed StateVector as the client returns it at time t: a frame heard
\* just now, without a position time, one degree north of the observer,
\* airborne at 10000 m and climbing at 3.0 m/s; or a frame last heard and
\* positioned long ago, on the equator, on the ground.  Vertical rates are in
\* tenths of m/s.
Frames(t) ==
    {[icao24 |-> i, last_contact |-> v.lc, time_position |-> v.tp,
      latitude |-> v.lat, longitude |-> 0 - 74, on_ground |-> v.og,
      vertical_rate |-> v.vr, baro_altitude |-> v.alt] :
        i \in Ids,
        v \in {[lc |-> t, tp |-> <<>>, lat |-> 41, og |-> FALSE,
                vr |-> <<30>>, alt |-> <<10000>>],
               [lc |-> AncientTime, tp |-> <<AncientTime>>, lat |-> 0,
                og |-> TRUE, vr |-> <<>>, alt |-> <<>>]}}

\* the responses of the source: at most MaxFrames frames, at most one per
\* object id, in id order
FrameLists(t) ==
    {fr \in UNION {[1..n -> Frames(t)] : n \in 0..MaxFrames} :
        \A j, k \in 1..Len(fr) :
            j < k => IdRank(fr[j].icao24) < IdRank(fr[k].icao24)}

\* the ids of a batch, and the last frame of a batch for an id
BatchIds(svs) == {svs[k].icao24 : k \in 1..Len(svs)}

LastFrame(svs, i) ==
    svs[CHOOSE k \in 1..Len(svs) :
            /\ svs[k].icao24 = i
            /\ \A m \in (k + 1)..Len(svs) : svs[m].icao24 # i]

(* ------------------------------ Enricher ------------------------------ *)
Abs(x) == IF x < 0 THEN 0 - x ELSE x

\* haversine_distance in whole kilometres between the points of two
\* meridians that the model uses: 202.38 km and 277.06 km
OffMeridianKm(p) ==
    CASE p = <<40, 0 - 72, 41, 0 - 74>> -> 202
      [] p = <<43, 0 - 72, 41, 0 - 74>> -> 277

\* haversine_distance in whole kilometres, for two points of one meridian,
\* where the formula reduces to R * |lat2 - lat1| (in radians): 111.19 km
\* per degree
HaversineKm(lat1, lon1, lat2, lon2) ==
    CASE lon1 = lon2 -> (11119 * Abs(lat2 - lat1)) \div 100
      [] lon1 # lon2 -> OffMeridianKm(<<lat1, lon1, lat2, lon2>>)

\* the distance of _enrich_state and _batch_insert_history: absent unless
\* observer location, latitude and longitude are all truthy
DistanceKm(loc, sv) ==
    IF loc # <<>> /\ sv.latitude # 0 /\ sv.longitude # 0
    THEN <<HaversineKm(loc[1][1], loc[1][2], sv.latitude, sv.longitude)>>
    ELSE <<>>

\* detect_flight_phase, had its low-altitude rule required a vertical rate
DetectFlightPhase_RateRequired(on_ground, vertical_rate, baro_altitude) ==
    IF on_ground THEN "GROUND"
    ELSE IF /\ baro_altitude # <<>> /\ baro_altitude[1] < 500
            /\ vertical_rate # <<>> /\ Abs(vertical_rate[1]) < 10
         THEN "GROUND"
    ELSE IF vertical_rate = <<>> THEN "UNKNOWN"
    ELSE IF vertical_rate[1] > 25 THEN "CLIMB"
    ELSE IF vertical_rate[1] < 0 - 25 THEN "DESCENT"
    ELSE "CRUISE"

\* detect_flight_phase, vertical rate in tenths of m/s
DetectFlightPhase(on_ground, vertical_rate, baro_altitude) ==
    IF on_ground THEN "GROUND"
    ELSE IF /\ baro_altitude # <<>> /\ baro_altitude[1] < 500
            /\ (vertical_rate = <<>> \/ Abs(vertical_rate[1]) < 10)
         THEN "GROUND"
    ELSE IF vertical_rate = <<>> THEN "UNKNOWN"
    ELSE IF vertical_rate[1] > 25 THEN "CLIMB"
    ELSE IF vertical_rate[1] < 0 - 25 THEN "DESCENT"
    ELSE "CRUISE"

(* ----------------------------- Storage -------------------------------- *)
\* _enrich_state: the row written for one state vector
EnrichState(sv, t, loc) ==
    [last_contact |-> sv.last_contact, time_position |-> sv.time_position,
     latitude |-> sv.latitude, longitude |-> sv.longitude,
     baro_altitude |-> sv.baro_altitude, vertical_rate |-> sv.vertical_rate,
     on_ground |-> sv.on_ground,
     flight_phase |-> DetectFlightPhase(sv.on_ground, sv.vertical_rate,
                                        sv.baro_altitude),
     distance_km |-> DistanceKm(loc, sv), updated_at |-> t]

RECURSIVE BatchUpsertStates_Ignore(_, _, _, _)
\* BatchUpsertStates, had the statement been INSERT .. ON CONFLICT DO NOTHING
BatchUpsertStates_Ignore(fs, svs, t, loc) ==
    IF svs = <<>> THEN fs
    ELSE LET sv == Head(svs)
             row == EnrichState(sv, t, loc)
             fs1 == [i \in (DOMAIN fs) \cup {sv.icao24} |->
                        IF i \in DOMAIN fs THEN fs[i] ELSE row]
         IN BatchUpsertStates_Ignore(fs1, Tail(svs), t, loc)

RECURSIVE BatchUpsertStates(_, _, _, _)
\* _batch_upsert_states: INSERT .. ON CONFLICT(icao24) DO UPDATE, one by one
BatchUpsertStates(fs, svs, t, loc) ==
    IF svs = <<>> THEN fs
    ELSE LET sv == Head(svs)
             row == EnrichState(sv, t, loc)
             fs1 == [i \in (DOMAIN fs) \cup {sv.icao24} |->
                        IF i = sv.icao24 THEN row ELSE fs[i]]
         IN BatchUpsertStates(fs1, Tail(svs), t, loc)

\* _batch_insert_history: one appended record per state vector
BatchInsertHistory(ph, svs, api, loc) ==
    ph \o [k \in 1..Len(svs) |->
              [icao24 |-> svs[k].icao24,
               timestamp |-> OrElse(svs[k].time_position, api),
               distance_km |-> DistanceKm(loc, svs[k])]]

\* _cleanup_stale_data on the flight_states table
CleanupStates(fs, t) ==
    [i \in {j \in DOMAIN fs : ~(fs[j].last_contact < t - StaleThreshold)} |-> fs[i]]

\* _cleanup_stale_data on the position_history table
CleanupHistory(ph, t) ==
    SelectSeqBy(ph, {r \in Range(ph) : r.timestamp < t - (RetentionHours * 3600)})

CleanupDue(n) == n % CleanupEvery = 0

\* the threads calling the cache's read operations
Threads == {"t1", "t2"}

\* FlightCache.__init__
CacheConstructed ==
    /\ cache = <<>>
    /\ hits = 0
    /\ misses = 0
    /\ last_refresh = 0
    /\ rpc = "idle"
    /\ flights = <<>>
    /\ new_cache = <<>>
    /\ ops = 0
    /\ ret = [op |-> "none", arg |-> "", val |-> <<>>, age |-> <<>>,
              rpc |-> "idle"]
    /\ r_pre = <<>>
    /\ r_mut = FALSE
    /\ last_read = {}
    /\ gpc = [t \in Threads |-> "idle"]
    /\ gtmp = [t \in Threads |-> 0]
    /\ gets = 0

\* OpenSkyClient.__init__: no request made yet; the pipeline's client is
\* anonymous unless credentials are configured
ClientConstructed ==
    /\ last_request_time = 0
    /\ kpc = "idle"
    /\ sent = <<>>

\* no function under study, no analyzer call and no race in progress
AnalyzerIds == {"a1", "b2"}

\* the analyzer instances alive
Analyzers == {"an1", "an2"}

\* TelemetryAnalyzer.__init__, for each instance
AnalyzersConstructed ==
    /\ an_cache = [an \in Analyzers |-> [i \in AnalyzerIds |-> <<>>]]
    /\ an_calls = 0
    /\ an_ret = [an |-> "none", id |-> "", val |-> <<>>, read |-> FALSE]
    /\ an_map = <<>>
    /\ an_count = <<>>

\* no cycle in progress, no loop thread started, nobody calling
\* start_background or stop
LoopsIdle ==
    /\ local = <<>>
    /\ thread = <<>>
    /\ loops = <<>>
    /\ callers = [c \in Threads |-> "idle"]

\* seconds a ticker flight is shown (_ticker_state['rotation_interval'])
RotationInterval == 8

\* a thread of the API that serves no ticker request
IdleRequest ==
    [pc |-> "idle", flights |-> <<>>, rotation_interval |-> RotationInterval,
     ret |-> <<>>, served |-> 0]

\* the module-level state of the API layer after import: FlightInfoService()
\* without an API key and not in demo mode, and _ticker_state
ServicesConstructed ==
    /\ flight_info_service =
           [api_key |-> FALSE, demo_mode |-> FALSE, cache |-> <<>>,
            last_request_time |-> 0, requests_today |-> 0]
    /\ route_ret = [callsign |-> "", val |-> <<>>, sent |-> 0,
                    negative |-> FALSE, calls |-> 0]
    /\ ticker_state = [index |-> 0, last_rotation |-> 0,
                       rotation_interval |-> RotationInterval]
    /\ requests = [t \in Threads |-> IdleRequest]

ExtrasIdle ==
    /\ args = <<>>
    /\ value = <<>>
    /\ AnalyzersConstructed
    /\ LoopsIdle
    /\ ServicesConstructed

(* ------------------------------- Init --------------------------------- *)
\* The pipeline after construction and CleanupEvery - 2 cycles whose Storage
\* step failed (each increments both counters and leaves Storage as it
\* was), so that the cycle with the periodic cleanup is in reach.
PipelineConstructed ==
    /\ now = 90000
    /\ observer_location \in {<<>>} \cup {<<l>> : l \in Locations}
    /\ running = FALSE
    /\ fetch_count = CleanupEvery - 2
    /\ error_count = CleanupEvery - 2
    /\ callbacks = <<>>
    /\ pc = "none"
    /\ states = <<>>
    /\ api_time = 0
    /\ session = <<>>
    /\ cb_idx = 1
    /\ result = 0
    /\ flight_states = <<>>
    /\ position_history = <<>>
    /\ cycles = 0
    /\ stop_called = FALSE
    /\ outcome = "none"
    /\ pre = [fs |-> <<>>, ph |-> <<>>, err |-> CleanupEvery - 2,
              fetch |-> CleanupEvery - 2]
    /\ visible_log = <<>>
    /\ cb_calls = <<>>

PipelineInit ==
    /\ PipelineConstructed
    /\ CacheConstructed
    /\ ClientConstructed
    /\ ExtrasIdle
    /\ authenticated = FALSE

(* ------------------------- pipeline: clients -------------------------- *)
Tick ==
    /\ \E t \in Instants : t > now /\ now' = t
    /\ UNCHANGED cvars
    /\ UNCHANGED <<observer_location, running, fetch_count, error_count, callbacks,
                   pc, states, api_time, session, cb_idx, result, flight_states,
                   position_history, cycles, stop_called, outcome, pre,
                   visible_log, cb_calls>>

SetObserverLocation ==
    /\ \E l \in Locations : observer_location # <<l>> /\ observer_location' = <<l>>
    /\ UNCHANGED cvars
    /\ UNCHANGED <<now, running, fetch_count, error_count, callbacks,
                   pc, states, api_time, session, cb_idx, result, flight_states,
                   position_history, cycles, stop_called, outcome, pre,
                   visible_log, cb_calls>>

\* (the application registers its callbacks before it starts the loop,
\* app.py:106-109)
AddUpdateCallback ==
    /\ Len(callbacks) < MaxCallbacks
    /\ pc = "none"
    /\ callbacks' = Append(callbacks, CallbackNames[Len(callbacks) + 1])
    /\ UNCHANGED cvars
    /\ UNCHANGED <<now, observer_location, running, fetch_count, error_count,
                   pc, states, api_time, session, cb_idx, result, flight_states,
                   position_history, cycles, stop_called, outcome, pre,
                   visible_log, cb_calls>>

ThreadAlive == pc \notin {"none", "exited"}

StartBackground ==
    /\ IF ThreadAlive
       THEN UNCHANGED <<pc, stop_called>>
       ELSE pc' = "created" /\ stop_called' = FALSE
    /\ UNCHANGED cvars
    /\ UNCHANGED <<now, observer_location, running, fetch_count, error_count,
                   callbacks, states, api_time, session, cb_idx, result,
                   flight_states, position_history, cycles, outcome, pre,
                   visible_log, cb_calls>>

Stop ==
    /\ running' = FALSE
    /\ stop_called' = TRUE
    /\ UNCHANGED cvars
    /\ UNCHANGED <<now, observer_location, fetch_count, error_count, callbacks,
                   pc, states, api_time, session, cb_idx, result, flight_states,
                   position_history, cycles, outcome, pre, visible_log, cb_calls>>

(* ----------------------- pipeline: loop thread ------------------------ *)
\* run_continuous, first statements
ThreadStart ==
    /\ pc = "created"
    /\ running' = TRUE
    /\ pc' = "while"
    /\ UNCHANGED cvars
    /\ UNCHANGED <<now, observer_location, fetch_count, error_count, callbacks,
                   states, api_time, session, cb_idx, result, flight_states,
                   position_history, cycles, stop_called, outcome, pre,
                   visible_log, cb_calls>>

\* while self._running: self.fetch_and_process()
LoopCheck ==
    /\ pc = "while"
    /\ IF running
       THEN /\ cycles < MaxCycles
            /\ cycles' = cycles + 1
            /\ pc' = "guard"
            /\ outcome' = "running"
            /\ pre' = [fs |-> flight_states, ph |-> position_history,
                       err |-> error_count, fetch |-> fetch_count]
            /\ visible_log' = <<>>
            /\ cb_calls' = <<>>
            /\ states' = <<>>
       ELSE /\ pc' = "exited"
            /\ UNCHANGED <<cycles, outcome, pre, visible_log, cb_calls, states>>
    /\ UNCHANGED cvars
    /\ UNCHANGED <<now, observer_location, running, fetch_count, error_count,
                   callbacks, api_time, session, cb_idx, result, flight_states,
                   position_history, stop_called>>

\* Guard, had a missing observer location been counted as an error
Guard_Counted ==
    /\ pc = "guard"
    /\ IF observer_location = <<>>
       THEN /\ result' = 0 - 1 /\ outcome' = "no_location" /\ pc' = "sleep"
            /\ error_count' = error_count + 1
       ELSE pc' = "fetch" /\ UNCHANGED <<result, outcome, error_count>>
    /\ UNCHANGED cvars
    /\ UNCHANGED <<now, observer_location, running, fetch_count,
                   callbacks, states, api_time, session, cb_idx, flight_states,
                   position_history, cycles, stop_called, pre, visible_log,
                   cb_calls>>

\* fetch_and_process: if not self.observer_location
Guard ==
    /\ pc = "guard"
    /\ IF observer_location = <<>>
       THEN result' = 0 - 1 /\ outcome' = "no_location" /\ pc' = "sleep"
       ELSE pc' = "fetch" /\ UNCHANGED <<result, outcome>>
    /\ UNCHANGED cvars
    /\ UNCHANGED <<now, observer_location, running, fetch_count, error_count,
                   callbacks, states, api_time, session, cb_idx, flight_states,
                   position_history, cycles, stop_called, pre, visible_log,
                   cb_calls>>

\* FetchFail, had the fetch counter been incremented before the fetch
FetchFail_Counted ==
    /\ pc = "fetch"
    /\ error_count' = error_count + 1
    /\ fetch_count' = fetch_count + 1
    /\ result' = 0 - 1
    /\ outcome' = "fetch_failed"
    /\ pc' = "sleep"
    /\ UNCHANGED cvars
    /\ UNCHANGED <<now, observer_location, running, callbacks,
                   states, api_time, session, cb_idx, flight_states,
                   position_history, cycles, stop_called, pre, visible_log,
                   cb_calls>>

\* FetchFail, had fetch_and_process not caught the exception: it ends
\* run_continuous
FetchFail_Fatal ==
    /\ pc = "fetch"
    /\ outcome' = "fetch_failed"
    /\ pc' = "exited"
    /\ UNCHANGED cvars
    /\ UNCHANGED <<now, observer_location, running, fetch_count, error_count,
                   callbacks, states, api_time, session, cb_idx, result,
                   flight_states, position_history, cycles, stop_called, pre,
                   visible_log, cb_calls>>

\* get_states_by_location raises: except Exception
FetchFail ==
    /\ pc = "fetch"
    /\ error_count' = error_count + 1
    /\ result' = 0 - 1
    /\ outcome' = "fetch_failed"
    /\ pc' = "sleep"
    /\ UNCHANGED cvars
    /\ UNCHANGED <<now, observer_location, running, fetch_count, callbacks,
                   states, api_time, session, cb_idx, flight_states,
                   position_history, cycles, stop_called, pre, visible_log,
                   cb_calls>>

\* get_states_by_location returns; empty: return 0; else count and open the session
FetchOk ==
    /\ pc = "fetch"
    /\ \E fr \in FrameLists(now) :
          IF fr = <<>>
          THEN /\ result' = 0
               /\ outcome' = "empty"
               /\ pc' = "sleep"
               /\ UNCHANGED <<states, api_time, fetch_count, session>>
          ELSE /\ states' = fr
               /\ api_time' = now
               /\ fetch_count' = fetch_count + 1
               /\ session' = <<[fs |-> flight_states, ph |-> position_history,
                                log |-> <<>>]>>
               /\ pc' = "upsert"
               /\ UNCHANGED <<result, outcome>>
    /\ UNCHANGED cvars
    /\ UNCHANGED <<now, observer_location, running, error_count, callbacks,
                   cb_idx, flight_states, position_history, cycles, stop_called,
                   pre, visible_log, cb_calls>>

\* Upsert, had the session been in autocommit mode: the statement is
\* visible to readers at once
Upsert_Autocommit ==
    /\ pc = "upsert"
    /\ session' = <<[session[1] EXCEPT
                       !.fs = BatchUpsertStates(@, states, now, observer_location),
                       !.log = Append(@, "upsert")]>>
    /\ flight_states' = BatchUpsertStates(session[1].fs, states, now, observer_location)
    /\ visible_log' = Append(visible_log, "upsert")
    /\ pc' = "history"
    /\ UNCHANGED cvars
    /\ UNCHANGED <<now, observer_location, running, fetch_count, error_count,
                   callbacks, states, api_time, cb_idx, result,
                   position_history, cycles, stop_called, outcome, pre,
                   cb_calls>>

\* Stage 3: self._batch_upsert_states(enriched, session)
Upsert ==
    /\ pc = "upsert"
    /\ session' = <<[session[1] EXCEPT
                       !.fs = BatchUpsertStates(@, states, now, observer_location),
                       !.log = Append(@, "upsert")]>>
    /\ pc' = "history"
    /\ UNCHANGED cvars
    /\ UNCHANGED <<now, observer_location, running, fetch_count, error_count,
                   callbacks, states, api_time, cb_idx, result, flight_states,
                   position_history, cycles, stop_called, outcome, pre,
                   visible_log, cb_calls>>

\* History, had the insert replaced the rows of the table
History_Overwrite ==
    /\ pc = "history"
    /\ session' = <<[session[1] EXCEPT
                       !.ph = BatchInsertHistory(<<>>, states, api_time, observer_location),
                       !.log = Append(@, "history")]>>
    /\ pc' = IF CleanupDue(fetch_count) THEN "cleanup" ELSE "commit"
    /\ UNCHANGED cvars
    /\ UNCHANGED <<now, observer_location, running, fetch_count, error_count,
                   callbacks, states, api_time, cb_idx, result, flight_states,
                   position_history, cycles, stop_called, outcome, pre,
                   visible_log, cb_calls>>

\* Stage 4: self._batch_insert_history(states, api_time, session)
History ==
    /\ pc = "history"
    /\ session' = <<[session[1] EXCEPT
                       !.ph = BatchInsertHistory(@, states, api_time, observer_location),
                       !.log = Append(@, "history")]>>
    /\ pc' = IF CleanupDue(fetch_count) THEN "cleanup" ELSE "commit"
    /\ UNCHANGED cvars
    /\ UNCHANGED <<now, observer_location, running, fetch_count, error_count,
                   callbacks, states, api_time, cb_idx, result, flight_states,
                   position_history, cycles, stop_called, outcome, pre,
                   visible_log, cb_calls>>

\* Cleanup, had it deleted stale flight states only
Cleanup_StatesOnly ==
    /\ pc = "cleanup"
    /\ session' = <<[session[1] EXCEPT
                       !.fs = CleanupStates(@, now),
                       !.log = Append(@, "cleanup")]>>
    /\ pc' = "commit"
    /\ UNCHANGED cvars
    /\ UNCHANGED <<now, observer_location, running, fetch_count, error_count,
                   callbacks, states, api_time, cb_idx, result, flight_states,
                   position_history, cycles, stop_called, outcome, pre,
                   visible_log, cb_calls>>

\* Stage 5: self._cleanup_stale_data(session)
Cleanup ==
    /\ pc = "cleanup"
    /\ session' = <<[session[1] EXCEPT
                       !.fs = CleanupStates(@, now),
                       !.ph = CleanupHistory(@, now),
                       !.log = Append(@, "cleanup")]>>
    /\ pc' = "commit"
    /\ UNCHANGED cvars
    /\ UNCHANGED <<now, observer_location, running, fetch_count, error_count,
                   callbacks, states, api_time, cb_idx, result, flight_states,
                   position_history, cycles, stop_called, outcome, pre,
                   visible_log, cb_calls>>

\* session.commit() and the end of the with block
Commit ==
    /\ pc = "commit"
    /\ flight_states' = session[1].fs
    /\ position_history' = session[1].ph
    /\ visible_log' = session[1].log
    /\ session' = <<>>
    /\ cb_idx' = 1
    /\ outcome' = "committed"
    /\ pc' = "callbacks"
    /\ UNCHANGED cvars
    /\ UNCHANGED <<now, observer_location, running, fetch_count, error_count,
                   callbacks, states, api_time, result, cycles, stop_called,
                   pre, cb_calls>>

\* StorageFail, had closing the session flushed its pending statements
\* instead of rolling them back
StorageFail_NoRollback ==
    /\ pc \in {"upsert", "history", "cleanup", "commit"}
    /\ flight_states' = session[1].fs
    /\ position_history' = session[1].ph
    /\ session' = <<>>
    /\ error_count' = error_count + 1
    /\ result' = 0 - 1
    /\ outcome' = "storage_failed"
    /\ pc' = "sleep"
    /\ UNCHANGED cvars
    /\ UNCHANGED <<now, observer_location, running, fetch_count, callbacks,
                   states, api_time, cb_idx, cycles, stop_called, pre,
                   visible_log, cb_calls>>

\* a Storage statement or the commit raises: the with block closes the
\* session (rollback), then except Exception
StorageFail ==
    /\ pc \in {"upsert", "history", "cleanup", "commit"}
    /\ session' = <<>>
    /\ error_count' = error_count + 1
    /\ result' = 0 - 1
    /\ outcome' = "storage_failed"
    /\ pc' = "sleep"
    /\ UNCHANGED cvars
    /\ UNCHANGED <<now, observer_location, running, fetch_count, callbacks,
                   states, api_time, cb_idx, flight_states, position_history,
                   cycles, stop_called, pre, visible_log, cb_calls>>

\* Callback, had the call not been wrapped in its own try: a raising
\* callback reaches the outer except Exception
Callback_Propagates ==
    /\ pc = "callbacks"
    /\ cb_idx <= Len(callbacks)
    /\ \E raised \in BOOLEAN :
          /\ cb_calls' = Append(cb_calls, [cb |-> callbacks[cb_idx],
                                           arg |-> Len(states), raised |-> raised])
          /\ IF raised
             THEN /\ error_count' = error_count + 1
                  /\ result' = 0 - 1
                  /\ pc' = "sleep"
             ELSE UNCHANGED <<error_count, result, pc>>
    /\ cb_idx' = cb_idx + 1
    /\ UNCHANGED cvars
    /\ UNCHANGED <<now, observer_location, running, fetch_count,
                   callbacks, states, api_time, session,
                   flight_states, position_history, cycles, stop_called,
                   outcome, pre, visible_log>>

\* for callback in self._on_update_callbacks: try callback(len(states))
Callback ==
    /\ pc = "callbacks"
    /\ cb_idx <= Len(callbacks)
    /\ \E raised \in BOOLEAN :
          cb_calls' = Append(cb_calls, [cb |-> callbacks[cb_idx],
                                        arg |-> Len(states), raised |-> raised])
    /\ cb_idx' = cb_idx + 1
    /\ UNCHANGED cvars
    /\ UNCHANGED <<now, observer_location, running, fetch_count, error_count,
                   callbacks, pc, states, api_time, session, result,
                   flight_states, position_history, cycles, stop_called,
                   outcome, pre, visible_log>>

\* return len(states)
Return ==
    /\ pc = "callbacks"
    /\ cb_idx > Len(callbacks)
    /\ result' = Len(states)
    /\ pc' = "sleep"
    /\ UNCHANGED cvars
    /\ UNCHANGED <<now, observer_location, running, fetch_count, error_count,
                   callbacks, states, api_time, session, cb_idx, flight_states,
                   position_history, cycles, stop_called, outcome, pre,
                   visible_log, cb_calls>>

\* time.sleep(interval)
Sleep ==
    /\ pc = "sleep"
    /\ pc' = "while"
    /\ UNCHANGED cvars
    /\ UNCHANGED <<now, observer_location, running, fetch_count, error_count,
                   callbacks, states, api_time, session, cb_idx, result,
                   flight_states, position_history, cycles, stop_called,
                   outcome, pre, visible_log, cb_calls>>

LoopStep ==
    \/ ThreadStart \/ LoopCheck \/ Guard \/ FetchFail \/ FetchOk \/ Upsert
    \/ History \/ Cleanup \/ Commit \/ StorageFail \/ Callback \/ Return \/ Sleep

PipelineNext ==
    \/ Tick \/ SetObserverLocation \/ AddUpdateCallback \/ StartBackground \/ Stop
    \/ ThreadStart \/ LoopCheck \/ Guard \/ FetchFail \/ FetchOk \/ Upsert
    \/ History \/ Cleanup \/ Commit \/ StorageFail \/ Callback \/ Return \/ Sleep

Spec == PipelineInit /\ [][PipelineNext]_vars

FairSpec == PipelineInit /\ [][PipelineNext]_vars /\ WF_vars(LoopStep)

(* ------------------- properties of one ingestion cycle ----------------- *)
\* fetch_and_process has returned (the loop thread is between two cycles)
CycleOver == pc \in {"sleep", "while", "exited"} /\ outcome # "none"

\* the statements a cycle with the current fetch counter executes
FullLog ==
    IF CleanupDue(fetch_count) THEN <<"upsert", "history", "cleanup">>
    ELSE <<"upsert", "history">>

\* Storage after all statements of the cycle, the upsert executed at tu and
\* the cleanup (when due) at tc
CycleResult(tu, tc) ==
    LET fs1 == BatchUpsertStates(pre.fs, states, tu, observer_location)
        ph1 == BatchInsertHistory(pre.ph, states, api_time, observer_location)
    IN IF CleanupDue(fetch_count)
       THEN <<CleanupStates(fs1, tc), CleanupHistory(ph1, tc)>>
       ELSE <<fs1, ph1>>

AllWritesVisible ==
    \E tu, tc \in Instants :
        /\ api_time <= tu /\ tu <= tc /\ tc <= now
        /\ <<flight_states, position_history>> = CycleResult(tu, tc)

NoWriteVisible ==
    /\ flight_states = pre.fs
    /\ position_history = pre.ph

\* C1: what a concurrent Storage reader can observe of a cycle is either
\* none of its writes (Storage as it was when the cycle began) or all of
\* them (upsert, history append and, when due, cleanup) together.
C1_CycleWritesAtomic ==
    /\ visible_log \in {<<>>, FullLog}
    /\ visible_log = <<>> => NoWriteVisible
    /\ visible_log # <<>> => AllWritesVisible

\* a committed cycle of two frames whose cleanup removed rows
C1_Witness ==
    /\ visible_log = <<"upsert", "history", "cleanup">>
    /\ Len(states) = 2
    /\ Len(position_history) < Len(pre.ph) + 2
    /\ flight_states # pre.fs

\* C2: a cycle whose fetch failed has incremented the error counter by one,
\* left Storage and the fetch counter as they were, invoked no callback and
\* returned the error result.
C2_FetchFailure ==
    outcome = "fetch_failed" =>
        /\ error_count = pre.err + 1
        /\ fetch_count = pre.fetch
        /\ NoWriteVisible
        /\ cb_calls = <<>>
        /\ result = 0 - 1

C2_Witness ==
    /\ outcome = "fetch_failed"
    /\ CycleOver
    /\ pre.fs # <<>>
    /\ pre.ph # <<>>
    /\ callbacks # <<>>

\* C3: a cycle in which a Storage step failed leaves Storage as it was when
\* the cycle began, has incremented the error counter by one and invoked no
\* callback.
C3_StorageFailure ==
    outcome = "storage_failed" =>
        /\ NoWriteVisible
        /\ error_count = pre.err + 1
        /\ cb_calls = <<>>

C3_Witness ==
    /\ outcome = "storage_failed"
    /\ CycleOver
    /\ pre.fs # <<>>
    /\ Len(states) = 2
    /\ callbacks # <<>>

\* every registered callback was invoked once, in registration order, with
\* the number of processed frames
EachCallbackOnce ==
    /\ Len(cb_calls) = Len(callbacks)
    /\ \A k \in 1..Len(callbacks) :
          cb_calls[k].cb = callbacks[k] /\ cb_calls[k].arg = Len(states)

C10_CallbackPerSuccessfulCycle ==
    CycleOver =>
        /\ outcome \in {"committed", "empty"} => Len(cb_calls) = Len(callbacks)
        /\ outcome \in {"fetch_failed", "storage_failed"} => cb_calls = <<>>

\* what C11 says of a cycle without observer location, but for the result
NoLocationSkipped ==
    /\ states = <<>>
    /\ NoWriteVisible
    /\ cb_calls = <<>>
    /\ error_count = pre.err
    /\ fetch_count = pre.fetch

\* C11 as stated: a cycle without observer location fetches nothing, writes
\* nothing, invokes no callback, leaves both counters alone and reports zero
\* processed objects.
C11_NoLocationReportsZero ==
    outcome = "no_location" => (NoLocationSkipped /\ result = 0)

\* C11, amended: such a cycle fetches nothing, writes nothing, invokes no
\* callback, leaves both counters alone and reports -1, the error result.
C11_NoLocationReportsError ==
    outcome = "no_location" => (NoLocationSkipped /\ result = 0 - 1)

\* a cycle of a pipeline with a registered callback was skipped
C11_Witness ==
    /\ outcome = "no_location"
    /\ CycleOver
    /\ observer_location = <<>>
    /\ callbacks # <<>>

\* ph1 is ph0 with one record per frame of svs appended, in frame order
AppendedPerFrame(ph0, ph1, svs, api) ==
    /\ Len(ph1) = Len(ph0) + Len(svs)
    /\ SubSeq(ph1, 1, Len(ph0)) = ph0
    /\ \A k \in 1..Len(svs) :
          /\ ph1[Len(ph0) + k].icao24 = svs[k].icao24
          /\ ph1[Len(ph0) + k].timestamp = OrElse(svs[k].time_position, api)

\* ph1 is ph0 without exactly the records older than the retention window
\* at time t, the others in their order
OnlyExpiredDeleted(ph0, ph1, t) ==
    ph1 = SelectSeqBy(ph0, {r \in Range(ph0) :
                               r.timestamp < t - (RetentionHours * 3600)})

\* C13: table position_history changes only when a cycle commits; the
\* commit appends one record per fetched frame and leaves the existing
\* records as they are, except that a cycle with cleanup deletes exactly the
\* records older than the retention window at the time of the cleanup.
C13_HistoryAppendOnly ==
    [][position_history' # position_history =>
          /\ pc = "commit" /\ pc' = "callbacks"
          /\ IF CleanupDue(fetch_count)
             THEN LET ph1 == BatchInsertHistory(position_history, states,
                                                api_time, observer_location)
                  IN /\ AppendedPerFrame(position_history, ph1, states, api_time)
                     /\ \E t \in Instants :
                           /\ api_time <= t /\ t <= now
                           /\ OnlyExpiredDeleted(ph1, position_history', t)
             ELSE AppendedPerFrame(position_history, position_history',
                                   states, api_time)]_vars

\* a cycle with cleanup committed: of the old records, those within the
\* retention window were kept and an expired one was deleted
C13_Witness ==
    /\ outcome = "committed"
    /\ visible_log = <<"upsert", "history", "cleanup">>
    /\ pre.ph # <<>>
    /\ position_history # <<>>
    /\ \E r \in Range(pre.ph) : r \notin Range(position_history)
    /\ \E r \in Range(pre.ph) : r \in Range(position_history)

\* C14: no two records of table position_history have the same object id
\* and the same observation timestamp.
C14_OneRecordPerIdAndTimestamp ==
    \A j, k \in 1..Len(position_history) :
        (/\ position_history[j].icao24 = position_history[k].icao24
         /\ position_history[j].timestamp = position_history[k].timestamp)
        => j = k

\* the cleanup of the cycle is among its committed statements
CleanupCommitted == visible_log = <<"upsert", "history", "cleanup">>

\* the cycles the pipeline has started since its construction
CyclesSoFar == (CleanupEvery - 2) + cycles

\* last_contact of the row of id i once the batch of the cycle is upserted
UpsertedContact(i) ==
    IF i \in BatchIds(states) THEN LastFrame(states, i).last_contact
    ELSE pre.fs[i].last_contact

\* Storage after a committed cycle whose cleanup ran at time t: no stale
\* row, no expired record, and nothing else missing
CleanedAt(t) ==
    /\ \A i \in DOMAIN flight_states :
          ~(flight_states[i].last_contact < t - StaleThreshold)
    /\ \A i \in (DOMAIN pre.fs) \cup BatchIds(states) :
          ~(UpsertedContact(i) < t - StaleThreshold) => i \in DOMAIN flight_states
    /\ \A r \in Range(position_history) :
          ~(r.timestamp < t - (RetentionHours * 3600))
    /\ OnlyExpiredDeleted(BatchInsertHistory(pre.ph, states, api_time,
                                             observer_location),
                          position_history, t)

\* Storage after a committed cycle without cleanup: nothing deleted
NothingDeleted ==
    /\ DOMAIN flight_states = (DOMAIN pre.fs) \cup BatchIds(states)
    /\ Len(position_history) = Len(pre.ph) + Len(states)

C7_StopStopsLoop == stop_called => ~running

\* C8: the loop exits only after a stop request, and while no stop is
\* requested every finished cycle is followed by another cycle.
C8_LoopRunsUntilStopped ==
    /\ [](pc = "exited" => stop_called)
    /\ ((pc = "sleep" /\ cycles < MaxCycles) ~> (pc = "guard" \/ stop_called))

\* a second cycle is attempted after a first cycle that failed
C8_Witness ==
    /\ cycles = 2
    /\ pc = "fetch"
    /\ error_count = CleanupEvery - 1
    /\ ~stop_called


(* ======================= committed cycles, whole ====================== *)
\* responses in which an object id may occur more than once, in any order
BatchLists(t) == UNION {[1..n -> Frames(t)] : n \in 1..MaxFrames}

\* A cycle of fetch_and_process that fetches the frames fr and commits, as
\* one step: enrich, upsert, history append, cleanup when due, commit, and
\* the registered callbacks (none of which raises).
CommittedCycle(fr) ==
    /\ cycles < MaxCycles
    /\ observer_location # <<>>
    /\ LET due == CleanupDue(fetch_count + 1)
           fs1 == BatchUpsertStates(flight_states, fr, now, observer_location)
           ph1 == BatchInsertHistory(position_history, fr, now, observer_location)
       IN /\ states' = fr
          /\ flight_states' = IF due THEN CleanupStates(fs1, now) ELSE fs1
          /\ position_history' = IF due THEN CleanupHistory(ph1, now) ELSE ph1
          /\ visible_log' = IF due THEN <<"upsert", "history", "cleanup">>
                             ELSE <<"upsert", "history">>
          /\ cb_calls' = [k \in 1..Len(callbacks) |->
                            [cb |-> callbacks[k], arg |-> Len(fr),
                             raised |-> FALSE]]
          /\ result' = Len(fr)
    /\ cycles' = cycles + 1
    /\ fetch_count' = fetch_count + 1
    /\ api_time' = now
    /\ pre' = [fs |-> flight_states, ph |-> position_history,
               err |-> error_count, fetch |-> fetch_count]
    /\ outcome' = "committed"
    /\ cb_idx' = Len(callbacks) + 1
    /\ UNCHANGED <<now, observer_location, running, error_count, callbacks, pc,
                   session, stop_called>>

\* a committed cycle on a response in which ids may repeat
CycleWithBatch ==
    /\ \E fr \in BatchLists(now) : CommittedCycle(fr)
    /\ UNCHANGED cvars

BatchNext == Tick \/ CycleWithBatch

\* committed cycles on batches with repeated ids
BatchSpec == PipelineInit /\ [][BatchNext]_vars

\* last-write-wins: the table fs0 after the batch svs was applied at time t
LastWriteWins(fs0, svs, t, loc) ==
    [i \in (DOMAIN fs0) \cup BatchIds(svs) |->
        IF i \in BatchIds(svs) THEN EnrichState(LastFrame(svs, i), t, loc)
        ELSE fs0[i]]

\* C12: after a committed cycle table flight_states, keyed by object id,
\* holds for every id of the batch the row of the last frame of that id in
\* the batch and for every other id the row it held before (less the rows a
\* due cleanup removed); applying the batch once more changes no row.
C12_UpsertLastWriteWins ==
    outcome = "committed" =>
        LET lww == LastWriteWins(pre.fs, states, api_time, observer_location)
        IN /\ flight_states = IF CleanupDue(fetch_count)
                              THEN CleanupStates(lww, api_time) ELSE lww
           /\ BatchUpsertStates(lww, states, api_time, observer_location) = lww

\* a batch held two different frames of an id that already had a row, and
\* the row was replaced
C12_Witness ==
    /\ outcome = "committed"
    /\ Len(states) = 2
    /\ states[1].icao24 = states[2].icao24
    /\ states[1] # states[2]
    /\ states[1].icao24 \in DOMAIN pre.fs
    /\ states[1].icao24 \in DOMAIN flight_states
    /\ flight_states[states[1].icao24] # pre.fs[states[1].icao24]

(* ============================ FlightCache ============================= *)
MaxOps == 2           \* client calls on the cache in one run
MaxEntries == 2       \* FlightCache.max_entries, as constructed here

TTL == 5              \* FlightCache.ttl_seconds (config.py:70)

\* ids of FlightState objects handed to the cache
CacheIds == Ids \cup {"c3"}
\* ids as callers spell them
RawIds == CacheIds \cup {"A1"}
\* instants of the cache runs: ages below, at and above the TTL occur
CacheInstants == {90000, 90004, 90005, 90006}

\* str.lower() on the ids in use
Lower(s) == IF s = "A1" THEN "a1" ELSE s

IdsOf(c) == {c[k].icao24 : k \in 1..Len(c)}

\* self._cache[key] if present: <<>> or <<entry>>
Lookup(c, key) ==
    IF key \in IdsOf(c)
    THEN <<c[CHOOSE k \in 1..Len(c) : c[k].icao24 = key]>>
    ELSE <<>>

\* d[key] = e on a dict: an existing key keeps its position
Put(c, e) ==
    IF e.icao24 \in IdsOf(c)
    THEN [k \in 1..Len(c) |-> IF c[k].icao24 = e.icao24 THEN e ELSE c[k]]
    ELSE Append(c, e)

\* del d[key] / d.pop(key, None)
Remove(c, key) == SelectSeqBy(c, {e \in Range(c) : e.icao24 = key})

\* _enrich_flight: the CachedFlightState built from a row at time t
EnrichFlight(id, row, t, via) ==
    [icao24 |-> id, distance_km |-> row.distance_km,
     on_ground |-> row.on_ground, flight_phase |-> row.flight_phase,
     cached_at |-> t, via |-> via]

RECURSIVE RemoveOldest(_, _)
\* entries[:n] of sorted(items, key=cached_at), a stable sort, deleted
RemoveOldest(c, n) ==
    IF n = 0 \/ c = <<>> THEN c
    ELSE LET k == CHOOSE j \in 1..Len(c) :
                    /\ \A m \in 1..Len(c) : c[j].cached_at <= c[m].cached_at
                    /\ \A m \in 1..(j - 1) : c[m].cached_at # c[j].cached_at
         IN RemoveOldest(Remove(c, c[k].icao24), n - 1)

\* _evict_oldest, had it rounded the tenth up
EvictOldest_RoundedUp(c) ==
    RemoveOldest(c, IF (Len(c) + 9) \div 10 > 1 THEN (Len(c) + 9) \div 10
                    ELSE 1)

\* _evict_oldest
EvictOldest(c) ==
    RemoveOldest(c, IF Len(c) \div 10 > 1 THEN Len(c) \div 10 ELSE 1)

\* update, under the lock: the entry stored, then the eviction when the
\* map is over capacity
UpdateCache(c, e) ==
    LET c1 == Put(c, e)
    IN IF Len(c1) > MaxEntries THEN EvictOldest(c1) ELSE c1

\* the sort key of get_all: the distance if truthy, else infinity
KnownDistance(e) == e.distance_km # <<>> /\ e.distance_km[1] # 0
KeyLess(a, b) ==
    /\ KnownDistance(a)
    /\ (KnownDistance(b) => a.distance_km[1] < b.distance_km[1])

RECURSIVE SortByDistance(_)
\* list.sort(key=...): stable, ascending
SortByDistance(c) ==
    IF c = <<>> THEN <<>>
    ELSE LET k == CHOOSE j \in 1..Len(c) :
                    /\ \A m \in 1..Len(c) : ~KeyLess(c[m], c[j])
                    /\ \A m \in 1..(j - 1) : KeyLess(c[j], c[m])
         IN <<c[k]>> \o SortByDistance(Remove(c, c[k].icao24))

\* the rows of flight_states, in the order the query returns them
RowLists(fs) ==
    {fl \in [1..Cardinality(DOMAIN fs) -> DOMAIN fs] :
        \A j, k \in 1..Len(fl) : j # k => fl[j] # fl[k]}

(* the part of the state the cache does not touch *)
pipe_rest == <<running, error_count, callbacks,
               pc, states, api_time, session, cb_idx, result,
               position_history, stop_called, outcome, pre,
               visible_log, cb_calls, kvars, tvars, lvars, svars, avars>>

pipe_only == <<fetch_count, pipe_rest>>

\* A FlightCache constructed next to a pipeline with an observer location,
\* Storage empty; the pipeline as in PipelineInit.
CacheInit ==
    /\ now = 90000
    /\ observer_location \in {<<l>> : l \in Locations}
    /\ running = FALSE
    /\ fetch_count = CleanupEvery - 2
    /\ error_count = CleanupEvery - 2
    /\ callbacks = <<>>
    /\ pc = "none"
    /\ states = <<>>
    /\ api_time = 0
    /\ session = <<>>
    /\ cb_idx = 1
    /\ result = 0
    /\ flight_states = <<>>
    /\ position_history = <<>>
    /\ cycles = 0
    /\ stop_called = FALSE
    /\ outcome = "none"
    /\ pre = [fs |-> <<>>, ph |-> <<>>, err |-> CleanupEvery - 2,
              fetch |-> CleanupEvery - 2]
    /\ visible_log = <<>>
    /\ cb_calls = <<>>
    /\ CacheConstructed
    /\ ClientConstructed
    /\ ExtrasIdle
    /\ authenticated = FALSE

CacheTick ==
    /\ \E t \in CacheInstants : t > now /\ now' = t
    /\ UNCHANGED <<observer_location, flight_states, cycles>>
    /\ UNCHANGED pipe_only
    /\ UNCHANGED cvars

\* An ingestion cycle, seen from the cache: its transaction commits the
\* upsert of its frames and, when due, the cleanup to table flight_states at
\* once, and the loop thread enters the application's completion callback,
\* which calls refresh_from_database (app.py on_ingestion_update).
CycleCommitted ==
    /\ cycles < MaxCycles
    /\ rpc = "idle"
    /\ cycles' = cycles + 1
    /\ fetch_count' = fetch_count + 1
    /\ \E fr \in FrameLists(now) \ {<<>>} :
          LET fs1 == BatchUpsertStates(flight_states, fr, now, observer_location)
          IN flight_states' = IF CleanupDue(fetch_count + 1)
                              THEN CleanupStates(fs1, now) ELSE fs1
    /\ rpc' = "read"
    /\ UNCHANGED <<cache, hits, misses, last_refresh, flights, new_cache, ops,
                   ret, r_pre, r_mut, last_read>>
    /\ UNCHANGED <<now, observer_location>>
    /\ UNCHANGED pipe_rest

(* ----------------------- refresh_from_database ------------------------ *)
\* with SessionLocal() as session: flights = session.query(FlightState).all()
RefreshRead ==
    /\ rpc = "read"
    /\ \E fl \in RowLists(flight_states) :
          flights' = [k \in 1..Len(fl) |-> [icao24 |-> fl[k], row |-> flight_states[fl[k]]]]
    /\ new_cache' = <<>>
    /\ rpc' = "build"
    /\ r_pre' = cache
    /\ r_mut' = FALSE
    /\ UNCHANGED <<cache, hits, misses, last_refresh, ops, ret, last_read>>
    /\ UNCHANGED <<now, observer_location, flight_states, cycles>>
    /\ UNCHANGED pipe_only

\* RefreshBuildOne, had the map been rebuilt in place
RefreshBuildOne_InPlace ==
    /\ rpc = "build"
    /\ Len(new_cache) < Len(flights)
    /\ LET flight == flights[Len(new_cache) + 1]
           e == EnrichFlight(flight.icao24, flight.row, now, "refresh")
       IN /\ new_cache' = Put(new_cache, e)
          /\ cache' = Put(cache, e)
    /\ UNCHANGED <<hits, misses, last_refresh, rpc, flights, ops, ret, r_pre,
                   r_mut, last_read>>
    /\ UNCHANGED <<now, observer_location, flight_states, cycles>>
    /\ UNCHANGED pipe_only

\* for flight in flights: new_cache[flight.icao24] = self._enrich_flight(flight)
RefreshBuildOne ==
    /\ rpc = "build"
    /\ Len(new_cache) < Len(flights)
    /\ LET flight == flights[Len(new_cache) + 1]
       IN new_cache' = Put(new_cache, EnrichFlight(flight.icao24, flight.row,
                                                  now, "refresh"))
    /\ UNCHANGED <<cache, hits, misses, last_refresh, rpc, flights, ops, ret,
                   r_pre, r_mut, last_read>>
    /\ UNCHANGED <<now, observer_location, flight_states, cycles>>
    /\ UNCHANGED pipe_only

\* RefreshSwap, had the new entries been merged into the old map
RefreshSwap_Merge ==
    /\ rpc = "build"
    /\ Len(new_cache) = Len(flights)
    /\ cache' = cache \o SelectSeqBy(new_cache,
                            {e \in Range(new_cache) : e.icao24 \in IdsOf(cache)})
    /\ last_refresh' = now
    /\ last_read' = {flights[k].icao24 : k \in 1..Len(flights)}
    /\ rpc' = "idle"
    /\ ret' = [op |-> "refresh", arg |-> "", val |-> <<Len(new_cache)>>,
               age |-> <<>>, rpc |-> "idle"]
    /\ flights' = <<>>
    /\ new_cache' = <<>>
    /\ r_pre' = <<>>
    /\ r_mut' = FALSE
    /\ UNCHANGED <<hits, misses, ops>>
    /\ UNCHANGED <<now, observer_location, flight_states, cycles>>
    /\ UNCHANGED pipe_only

\* with self._lock: self._cache = new_cache; return len(new_cache)
RefreshSwap ==
    /\ rpc = "build"
    /\ Len(new_cache) = Len(flights)
    /\ cache' = new_cache
    /\ last_refresh' = now
    /\ last_read' = {flights[k].icao24 : k \in 1..Len(flights)}
    /\ rpc' = "idle"
    /\ ret' = [op |-> "refresh", arg |-> "", val |-> <<Len(new_cache)>>,
               age |-> <<>>, rpc |-> "idle"]
    /\ flights' = <<>>
    /\ new_cache' = <<>>
    /\ r_pre' = <<>>
    /\ r_mut' = FALSE
    /\ UNCHANGED <<hits, misses, ops>>
    /\ UNCHANGED <<now, observer_location, flight_states, cycles>>
    /\ UNCHANGED pipe_only

(* --------------------------- client calls ----------------------------- *)
\* Get, had the comparison been age <= ttl
Get_Inclusive ==
    /\ ops < MaxOps
    /\ ops' = ops + 1
    /\ \E raw \in RawIds :
          LET key == Lower(raw)
              e == Lookup(cache, key)
              age == IF e = <<>> THEN <<>> ELSE <<now - e[1].cached_at>>
              hit == e # <<>> /\ age[1] <= TTL
          IN /\ cache' = IF e # <<>> /\ ~hit THEN Remove(cache, key) ELSE cache
             /\ hits' = IF hit THEN hits + 1 ELSE hits
             /\ misses' = IF hit THEN misses ELSE misses + 1
             /\ ret' = [op |-> "get", arg |-> raw, val |-> IF hit THEN e ELSE <<>>,
                        age |-> age, rpc |-> "idle"]
             /\ r_mut' = (r_mut \/ (e # <<>> /\ ~hit))
    /\ UNCHANGED <<last_refresh, rpc, flights, new_cache, r_pre, last_read>>
    /\ UNCHANGED <<now, observer_location, flight_states, cycles>>
    /\ UNCHANGED pipe_only

\* get(icao24)
Get ==
    /\ ops < MaxOps
    /\ ops' = ops + 1
    /\ \E raw \in RawIds :
          LET key == Lower(raw)
              e == Lookup(cache, key)
              age == IF e = <<>> THEN <<>> ELSE <<now - e[1].cached_at>>
              hit == e # <<>> /\ age[1] < TTL
          IN /\ cache' = IF e # <<>> /\ ~hit THEN Remove(cache, key) ELSE cache
             /\ hits' = IF hit THEN hits + 1 ELSE hits
             /\ misses' = IF hit THEN misses ELSE misses + 1
             /\ ret' = [op |-> "get", arg |-> raw, val |-> IF hit THEN e ELSE <<>>,
                        age |-> age, rpc |-> "idle"]
             /\ r_mut' = (r_mut \/ (e # <<>> /\ ~hit))
    /\ UNCHANGED <<last_refresh, rpc, flights, new_cache, r_pre, last_read>>
    /\ UNCHANGED <<now, observer_location, flight_states, cycles>>
    /\ UNCHANGED pipe_only

\* get_all()
GetAll ==
    /\ ops < MaxOps
    /\ ops' = ops + 1
    /\ ret' = [op |-> "get_all", arg |-> "", val |-> SortByDistance(cache),
               age |-> <<>>, rpc |-> rpc]
    /\ UNCHANGED <<cache, hits, misses, last_refresh, rpc, flights, new_cache,
                   r_pre, r_mut, last_read>>
    /\ UNCHANGED <<now, observer_location, flight_states, cycles>>
    /\ UNCHANGED pipe_only

\* update(flight), flight a FlightState of any id
Update ==
    /\ ops < MaxOps
    /\ ops' = ops + 1
    /\ \E id \in CacheIds, fr \in Frames(now) :
          LET row == EnrichState(fr, now, observer_location)
          IN /\ cache' = UpdateCache(cache,
                                     EnrichFlight(id, row, now, "update"))
             /\ ret' = [op |-> "update", arg |-> id, val |-> <<>>, age |-> <<>>,
                        rpc |-> "idle"]
    /\ r_mut' = TRUE
    /\ UNCHANGED <<hits, misses, last_refresh, rpc, flights, new_cache, r_pre,
                   last_read>>
    /\ UNCHANGED <<now, observer_location, flight_states, cycles>>
    /\ UNCHANGED pipe_only

\* invalidate(icao24)
Invalidate ==
    /\ ops < MaxOps
    /\ ops' = ops + 1
    /\ \E raw \in RawIds :
          /\ cache' = Remove(cache, Lower(raw))
          /\ ret' = [op |-> "invalidate", arg |-> raw, val |-> <<>>, age |-> <<>>,
                     rpc |-> "idle"]
    /\ r_mut' = TRUE
    /\ UNCHANGED <<hits, misses, last_refresh, rpc, flights, new_cache, r_pre,
                   last_read>>
    /\ UNCHANGED <<now, observer_location, flight_states, cycles>>
    /\ UNCHANGED pipe_only

\* clear()
Clear ==
    /\ ops < MaxOps
    /\ ops' = ops + 1
    /\ cache' = <<>>
    /\ ret' = [op |-> "clear", arg |-> "", val |-> <<>>, age |-> <<>>,
               rpc |-> "idle"]
    /\ r_mut' = TRUE
    /\ UNCHANGED <<hits, misses, last_refresh, rpc, flights, new_cache, r_pre,
                   last_read>>
    /\ UNCHANGED <<now, observer_location, flight_states, cycles>>
    /\ UNCHANGED pipe_only

\* the cache under ingestion at one instant: refreshes after committed
\* cycles, client calls from request threads
CacheNext ==
    \/ CycleCommitted
    \/ RefreshRead \/ RefreshBuildOne \/ RefreshSwap
    \/ Get \/ GetAll \/ Update \/ Invalidate \/ Clear

CacheSpec == CacheInit /\ [][CacheNext]_vars

\* the cache on a fine clock: single-object updates and lookups
TtlNext == CacheTick \/ Update \/ Get \/ GetAll

TtlSpec == CacheInit /\ [][TtlNext]_vars

\* the cache on a fine clock under the refresh of each committed cycle, with
\* readers that only look up and list
ReadersNext ==
    \/ CacheTick
    \/ CycleCommitted
    \/ RefreshRead \/ RefreshBuildOne \/ RefreshSwap
    \/ Get \/ GetAll

ReadersSpec == CacheInit /\ [][ReadersNext]_vars

\* the distances an entry can carry, in km: none, that of an object at the
\* observer's own position, and those of objects one and two degrees north
CacheDistances ==
    {<<>>} \cup {<<HaversineKm(l[1], l[2], l[1] + n, l[2])>> :
                     l \in Locations, n \in 0..2}

\* the maps of at most MaxEntries entries, stored by update at instant t
CacheContents(t) ==
    {c \in UNION {[1..n -> [icao24 : CacheIds, distance_km : CacheDistances,
                            on_ground : {FALSE}, flight_phase : {"CRUISE"},
                            cached_at : {t}, via : {"update"}]] :
                     n \in 0..MaxEntries} :
        \A j, k \in 1..Len(c) : j # k => c[j].icao24 # c[k].icao24}

\* a cache holding any such map
ListingInit ==
    /\ PipelineConstructed
    /\ ClientConstructed
    /\ ExtrasIdle
    /\ authenticated = FALSE
    /\ cache \in CacheContents(now)
    /\ hits = 0
    /\ misses = 0
    /\ last_refresh = 0
    /\ rpc = "idle"
    /\ flights = <<>>
    /\ new_cache = <<>>
    /\ ops = 0
    /\ ret = [op |-> "none", arg |-> "", val |-> <<>>, age |-> <<>>,
              rpc |-> "idle"]
    /\ r_pre = <<>>
    /\ r_mut = FALSE
    /\ last_read = {}
    /\ gpc = [t \in Threads |-> "idle"]
    /\ gtmp = [t \in Threads |-> 0]
    /\ gets = 0

ListingNext == GetAll

ListingSpec == ListingInit /\ [][ListingNext]_vars

(* ---------------------- get on several threads ---------------------- *)
\* get(icao24) on thread t, the part under the lock: look the entry up,
\* count and return a hit, or delete an expired entry and leave the lock
GetLookup(t) ==
    /\ gpc[t] = "idle"
    /\ ops < MaxOps
    /\ ops' = ops + 1
    /\ \E raw \in RawIds :
          LET key == Lower(raw)
              e == Lookup(cache, key)
              age == IF e = <<>> THEN <<>> ELSE <<now - e[1].cached_at>>
              hit == e # <<>> /\ age[1] < TTL
          IN /\ cache' = IF e # <<>> /\ ~hit THEN Remove(cache, key) ELSE cache
             /\ hits' = IF hit THEN hits + 1 ELSE hits
             /\ gets' = IF hit THEN gets + 1 ELSE gets
             /\ gpc' = [gpc EXCEPT ![t] = IF hit THEN "idle" ELSE "load"]
             /\ ret' = [op |-> "get", arg |-> raw, val |-> IF hit THEN e ELSE <<>>,
                        age |-> age, rpc |-> "idle"]
             /\ r_mut' = (r_mut \/ (e # <<>> /\ ~hit))
    /\ UNCHANGED <<misses, gtmp>>
    /\ UNCHANGED <<last_refresh, rpc, flights, new_cache, r_pre, last_read>>
    /\ UNCHANGED <<now, observer_location, flight_states, cycles, fetch_count>>
    /\ UNCHANGED <<running, error_count, callbacks, pc, states, api_time,
                   session, cb_idx, result, position_history, stop_called,
                   outcome, pre, visible_log, cb_calls, kvars, lvars, svars,
                   avars>>

\* self._misses += 1, outside the lock: the thread reads the counter ...
MissLoad(t) ==
    /\ gpc[t] = "load"
    /\ gtmp' = [gtmp EXCEPT ![t] = misses]
    /\ gpc' = [gpc EXCEPT ![t] = "store"]
    /\ UNCHANGED <<cache, hits, misses, last_refresh, rpc, flights, new_cache,
                   ops, ret, r_pre, r_mut, last_read, gets>>
    /\ UNCHANGED <<now, observer_location, flight_states, cycles, fetch_count>>
    /\ UNCHANGED <<running, error_count, callbacks, pc, states, api_time,
                   session, cb_idx, result, position_history, stop_called,
                   outcome, pre, visible_log, cb_calls, kvars, lvars, svars,
                   avars>>

\* ... and stores what it read plus one, then get returns None
MissStore(t) ==
    /\ gpc[t] = "store"
    /\ misses' = gtmp[t] + 1
    /\ gets' = gets + 1
    /\ gpc' = [gpc EXCEPT ![t] = "idle"]
    /\ UNCHANGED <<cache, hits, last_refresh, rpc, flights, new_cache,
                   ops, ret, r_pre, r_mut, last_read, gtmp>>
    /\ UNCHANGED <<now, observer_location, flight_states, cycles, fetch_count>>
    /\ UNCHANGED <<running, error_count, callbacks, pc, states, api_time,
                   session, cb_idx, result, position_history, stop_called,
                   outcome, pre, visible_log, cb_calls, kvars, lvars, svars,
                   avars>>

ThreadsNext ==
    \/ CacheTick
    \/ \E t \in Threads : GetLookup(t)
    \/ \E t \in Threads : MissLoad(t)
    \/ \E t \in Threads : MissStore(t)

ThreadsSpec == ListingInit /\ [][ThreadsNext]_vars

(* ------------------- pipeline and cache, end to end ------------------- *)
\* The application after create_app: the pipeline with the cache refresh as
\* its registered callback, after CleanupEvery - 2 or CleanupEvery - 1 cycles
\* whose Storage step failed; Storage and cache empty.
EndToEndInit ==
    /\ now = 90000
    /\ observer_location \in {<<l>> : l \in Locations}
    /\ running = FALSE
    /\ \E n \in {CleanupEvery - 2, CleanupEvery - 1} :
          /\ fetch_count = n
          /\ error_count = n
          /\ pre = [fs |-> <<>>, ph |-> <<>>, err |-> n, fetch |-> n]
    /\ callbacks = <<CallbackNames[1]>>
    /\ pc = "none"
    /\ states = <<>>
    /\ api_time = 0
    /\ session = <<>>
    /\ cb_idx = 1
    /\ result = 0
    /\ flight_states = <<>>
    /\ position_history = <<>>
    /\ cycles = 0
    /\ stop_called = FALSE
    /\ outcome = "none"
    /\ visible_log = <<>>
    /\ cb_calls = <<>>
    /\ CacheConstructed
    /\ ClientConstructed
    /\ ExtrasIdle
    /\ authenticated = FALSE

\* a committed cycle whose callback enters refresh_from_database
CycleAndCallback ==
    /\ rpc = "idle"
    /\ \E fr \in FrameLists(now) \ {<<>>} : CommittedCycle(fr)
    /\ rpc' = "read"
    /\ UNCHANGED <<cache, hits, misses, last_refresh, flights, new_cache, ops,
                   ret, r_pre, r_mut, last_read, kvars, tvars, lvars, svars, avars>>

\* GetAirborne, had it returned get_all unfiltered
GetAirborne_All ==
    /\ ops < MaxOps
    /\ ops' = ops + 1
    /\ ret' = [op |-> "get_airborne", arg |-> "", val |-> SortByDistance(cache),
               age |-> <<>>, rpc |-> rpc]
    /\ UNCHANGED <<cache, hits, misses, last_refresh, rpc, flights, new_cache,
                   r_pre, r_mut, last_read>>
    /\ UNCHANGED <<now, observer_location, flight_states, cycles>>
    /\ UNCHANGED pipe_only

\* get_airborne(): [f for f in self.get_all() if not f.on_ground]
GetAirborne ==
    /\ ops < MaxOps
    /\ ops' = ops + 1
    /\ ret' = [op |-> "get_airborne", arg |-> "",
               val |-> SelectSeqBy(SortByDistance(cache),
                                   {e \in Range(cache) : e.on_ground}),
               age |-> <<>>, rpc |-> rpc]
    /\ UNCHANGED <<cache, hits, misses, last_refresh, rpc, flights, new_cache,
                   r_pre, r_mut, last_read>>
    /\ UNCHANGED <<now, observer_location, flight_states, cycles>>
    /\ UNCHANGED pipe_only

EndToEndNext ==
    \/ CycleAndCallback
    \/ RefreshRead \/ RefreshBuildOne \/ RefreshSwap
    \/ GetAirborne

EndToEndSpec == EndToEndInit /\ [][EndToEndNext]_vars

\* the cycle that committed last began on empty Storage
FromEmptyStorage == outcome = "committed" /\ pre.fs = <<>> /\ pre.ph = <<>>

\* every row carries the flight phase computed for its frame: climbing at
\* 3.0 m/s at 10000 m off the ground is CLIMB, on the ground is GROUND
PhasePerFrame ==
    \A i \in DOMAIN flight_states :
        LET sv == LastFrame(states, i)
        IN /\ sv.on_ground => flight_states[i].flight_phase = "GROUND"
           /\ (/\ ~sv.on_ground
               /\ sv.vertical_rate = <<30>>
               /\ sv.baro_altitude = <<10000>>)
              => flight_states[i].flight_phase = "CLIMB"
           /\ flight_states[i].on_ground = sv.on_ground

\* the refresh that followed the last cycle has completed
Refreshed == rpc = "idle" /\ ret.op \in {"refresh", "get_airborne"}

\* the cache and the calls after the refresh that followed a cycle which
\* left n rows
RefreshedWith(n) ==
    Refreshed =>
        /\ Len(cache) = n
        /\ IdsOf(cache) = DOMAIN flight_states
        /\ ret.op = "refresh" => ret.val = <<n>>
        /\ ret.op = "get_airborne" =>
              /\ Range(ret.val) = {e \in Range(cache) : ~e.on_ground}
              /\ Len(ret.val) = Cardinality(Range(ret.val))

\* C16 as stated: a committed cycle on empty Storage with N frames leaves N
\* rows in flight_states and N records in position_history, each row with
\* the phase of its frame; the following refresh returns N and get_airborne
\* then returns exactly the entries that are not on the ground.
C16_EndToEnd ==
    FromEmptyStorage =>
        /\ Cardinality(DOMAIN flight_states) = Len(states)
        /\ Len(position_history) = Len(states)
        /\ PhasePerFrame
        /\ RefreshedWith(Len(states))

\* C16, amended: as C16 for a cycle without cleanup; a cycle with cleanup
\* leaves the rows of the frames that are not stale and the records that
\* are not expired, and the following refresh returns the number of rows
\* left.
C16_EndToEndButCleanup ==
    FromEmptyStorage =>
        /\ ~CleanupCommitted =>
              /\ Cardinality(DOMAIN flight_states) = Len(states)
              /\ Len(position_history) = Len(states)
        /\ CleanupCommitted =>
              /\ DOMAIN flight_states =
                    {i \in BatchIds(states) :
                        ~(LastFrame(states, i).last_contact
                             < api_time - StaleThreshold)}
              /\ Len(position_history) =
                    Cardinality({k \in 1..Len(states) :
                        ~(OrElse(states[k].time_position, api_time)
                             < api_time - (RetentionHours * 3600))})
        /\ PhasePerFrame
        /\ RefreshedWith(Cardinality(DOMAIN flight_states))

\* after a cycle of two frames on empty Storage and its refresh,
\* get_airborne returned one of the two entries
C16_Witness ==
    /\ FromEmptyStorage
    /\ ~CleanupCommitted
    /\ Len(states) = 2
    /\ Refreshed
    /\ ret.op = "get_airborne"
    /\ Len(cache) = 2
    /\ Len(ret.val) = 1
    /\ \E i \in DOMAIN flight_states : flight_states[i].flight_phase = "CLIMB"
    /\ \E i \in DOMAIN flight_states : flight_states[i].flight_phase = "GROUND"

(* --------------------------- cache properties ------------------------- *)
\* a step that is a call of the client operation op
Called(op) == ops' # ops /\ ret'.op = op

\* the ids of the rows a refresh has read
FlightIds == {flights[k].icao24 : k \in 1..Len(flights)}

\* C4: while refresh_from_database rebuilds, the map readers see stays the
\* complete pre-refresh map; the step that ends the rebuild installs the
\* complete new map, one entry per row read; and every get_all returns
\* exactly the entries of the map of that moment, so a get_all result is
\* the complete pre-refresh or the complete post-refresh contents.
C4_RefreshSwapAtomic ==
    [][/\ (rpc' = "build" /\ ~r_mut') => cache' = r_pre'
       /\ (rpc = "build" /\ rpc' = "idle") =>
              /\ IdsOf(cache') = FlightIds
              /\ Len(cache') = Len(flights)
              /\ \A e \in Range(cache') : e.via = "refresh"
       /\ Called("get_all") =>
              /\ Range(ret'.val) = Range(cache)
              /\ Len(ret'.val) = Len(cache)
              /\ (rpc = "build" /\ ~r_mut) => Range(ret'.val) = Range(r_pre)]_vars

\* a get_all returned the old map in the middle of a rebuild that had
\* already built entries the old map lacks
C4_Witness ==
    /\ rpc = "build"
    /\ ~r_mut
    /\ ret.op = "get_all"
    /\ ret.rpc = "build"
    /\ ret.val # <<>>
    /\ Range(ret.val) = Range(cache)
    /\ new_cache # <<>>
    /\ ~(IdsOf(new_cache) \subseteq IdsOf(cache))

\* C5 as stated: every id in the map was among the rows of the most recent
\* completed refresh read.
C5_OnlyIdsOfLastRead == IdsOf(cache) \subseteq last_read

\* C5, amended: every id in the map was among the rows read by the most
\* recent completed refresh, or its entry was stored by update since that
\* refresh completed.
C5_OnlyIdsOfLastReadOrUpdate ==
    \A e \in Range(cache) :
        \/ e.icao24 \in last_read
        \/ e.via = "update" /\ e.cached_at >= last_refresh

\* after a refresh that read rows, the map holds a refreshed entry and an
\* entry stored by update whose id the refresh did not read
C5_Witness ==
    /\ last_read # {}
    /\ \E e \in Range(cache) : e.via = "refresh"
    /\ \E e \in Range(cache) : e.via = "update" /\ e.icao24 \notin last_read

\* the entry stored for the id a get was called with, and its age
GetEntry == Lookup(cache, Lower(ret'.arg))

GetAge == now - GetEntry[1].cached_at

\* C6 as stated: get returns the entry iff one exists whose age has not
\* exceeded the TTL (age <= TTL); an entry whose age exceeds the TTL is
\* removed; a get of an id not cached returns absent and changes nothing.
C6_GetWithinTTL ==
    [][Called("get") =>
          /\ ret'.val # <<>> <=> (GetEntry # <<>> /\ GetAge <= TTL)
          /\ ret'.val # <<>> => ret'.val = GetEntry
          /\ (GetEntry # <<>> /\ GetAge > TTL) =>
                 cache' = Remove(cache, Lower(ret'.arg))
          /\ GetEntry = <<>> => cache' = cache]_vars

\* C6, amended: get returns the entry iff one exists whose age is below the
\* TTL (age < TTL), and then changes no entry; an entry whose age has
\* reached the TTL is removed and get returns absent; a get of an id not
\* cached returns absent and changes nothing.
C6_GetBelowTTL ==
    [][Called("get") =>
          /\ ret'.val # <<>> <=> (GetEntry # <<>> /\ GetAge < TTL)
          /\ ret'.val # <<>> => (ret'.val = GetEntry /\ cache' = cache)
          /\ (GetEntry # <<>> /\ GetAge >= TTL) =>
                 /\ ret'.val = <<>>
                 /\ cache' = Remove(cache, Lower(ret'.arg))
                 /\ Lower(ret'.arg) \notin IdsOf(cache')
          /\ GetEntry = <<>> => (ret'.val = <<>> /\ cache' = cache)]_vars

\* a get found an entry of age exactly TTL, returned absent and removed it
C6_Witness ==
    /\ ret.op = "get"
    /\ ret.age = <<TTL>>
    /\ ret.val = <<>>
    /\ Lower(ret.arg) \notin IdsOf(cache)

(* --------------------------- OpenSkyClient ---------------------------- *)
\* number of get_states calls followed
MaxCalls == 3

\* _min_interval, in seconds: 5.0 with credentials, 10.0 without
MinIntervalAuth == 5

MinIntervalAnon == 10

MinInterval == IF authenticated THEN MinIntervalAuth ELSE MinIntervalAnon

\* session.get(..., timeout=30), in seconds
RequestTimeout == 30

\* seconds that pass between two calls, and between a request and its
\* response or failure
Delays == {0, 1, MinIntervalAuth, MinIntervalAnon}

\* everything but the clock and the client's own state
client_rest == <<observer_location, running, fetch_count, error_count,
                 callbacks, pc, states, api_time, session, cb_idx, result,
                 flight_states, position_history, cycles, stop_called,
                 outcome, pre, visible_log, cb_calls, cache, hits, misses,
                 last_refresh, rpc, flights, new_cache, ops, ret, r_pre,
                 r_mut, last_read, tvars, lvars, svars, avars, authenticated>>

\* a client with or without credentials, next to a pipeline just constructed
ClientInit ==
    /\ PipelineConstructed
    /\ CacheConstructed
    /\ ClientConstructed
    /\ ExtrasIdle
    /\ authenticated \in BOOLEAN

\* a caller enters get_states, some time after the previous call returned
GetStates ==
    /\ kpc = "idle"
    /\ Len(sent) < MaxCalls
    /\ \E d \in Delays : now' = now + d
    /\ kpc' = "wait"
    /\ UNCHANGED <<last_request_time, sent>>
    /\ UNCHANGED client_rest

\* _wait_for_rate_limit: sleep for what is missing of the minimum interval
\* since last_request_time
WaitForRateLimit ==
    /\ kpc = "wait"
    /\ LET elapsed == now - last_request_time
       IN now' = IF elapsed < MinInterval
                 THEN now + (MinInterval - elapsed)
                 ELSE now
    /\ kpc' = "send"
    /\ UNCHANGED <<last_request_time, sent>>
    /\ UNCHANGED client_rest

\* session.get: the request leaves for the source
SendRequest ==
    /\ kpc = "send"
    /\ sent' = Append(sent, now)
    /\ kpc' = "inflight"
    /\ UNCHANGED <<now, last_request_time>>
    /\ UNCHANGED client_rest

\* session.get returns a response, of any status; last_request_time is
\* assigned before raise_for_status
Response ==
    /\ kpc = "inflight"
    /\ \E d \in Delays :
          /\ now' = now + d
          /\ last_request_time' = now + d
    /\ kpc' = "idle"
    /\ UNCHANGED sent
    /\ UNCHANGED client_rest

\* session.get raises: a Timeout after RequestTimeout seconds, or a
\* ConnectionError after any delay; the assignment of last_request_time
\* is not reached
RequestRaises ==
    /\ kpc = "inflight"
    /\ \E d \in Delays \cup {RequestTimeout} : now' = now + d
    /\ kpc' = "idle"
    /\ UNCHANGED <<last_request_time, sent>>
    /\ UNCHANGED client_rest

ClientNext ==
    \/ GetStates
    \/ WaitForRateLimit
    \/ SendRequest
    \/ Response
    \/ RequestRaises

ClientSpec == ClientInit /\ [][ClientNext]_vars

\* C17: on one client, any two consecutive requests sent to the source are
\* at least the minimum interval apart (5 seconds with credentials, 10
\* without), whether the calls succeed or fail.
C17_MinRequestInterval ==
    \A k \in 2..Len(sent) : sent[k] - sent[k - 1] >= MinInterval

(* ------------------------ cache: more properties ---------------------- *)
\* C18: between two consecutive refresh_from_database calls, with no
\* invalidate, clear or update in between, every get_all returns exactly the
\* ids loaded by the earlier refresh, whatever the age of the entries and
\* whatever get calls were made in between.
C18_GetAllNoFlicker ==
    [][Called("get_all") => IdsOf(ret'.val) = last_read]_vars

\* C19: get_all returns all entries, ordered by ascending distance: of two
\* entries with known distances (zero included) the one with the smaller
\* distance comes first, and no entry with a known distance follows an entry
\* with unknown distance.
C19_GetAllAscending ==
    [][Called("get_all") =>
          LET v == ret'.val
          IN /\ Len(v) = Len(cache)
             /\ Range(v) = Range(cache)
             /\ \A j, k \in 1..Len(v) :
                    j < k =>
                       /\ (v[j].distance_km # <<>> /\ v[k].distance_km # <<>>)
                              => v[j].distance_km[1] <= v[k].distance_km[1]
                       /\ ~(v[j].distance_km = <<>> /\ v[k].distance_km # <<>>)
       ]_vars

\* C20: every get call increments exactly one of hits and misses by one, so
\* once all get calls made have completed, also calls made concurrently on
\* several threads, hits + misses is the number of get calls.
C20_EveryGetCounted ==
    (\A t \in Threads : gpc[t] = "idle") => hits + misses = gets

(* ----------------------- functions under study ------------------------ *)
\* everything but the arguments and the value of the function under study
fn_rest == <<pvars, cache, hits, misses, last_refresh, rpc, flights,
             new_cache, ops, ret, r_pre, r_mut, last_read, kvars, tvars, lvars, svars,
             an_cache, an_calls, an_ret, an_map, an_count>>

\* the pipeline, the cache and the client just constructed
Constructed ==
    /\ PipelineConstructed
    /\ CacheConstructed
    /\ ClientConstructed
    /\ authenticated = FALSE

\* telemetry of a frame: on-ground flag, barometric altitude in m (absent,
\* below, just below, at and above 500) and vertical rate in tenths of m/s
\* (absent, and values around -2.5, -1.0, 0, 1.0 and 2.5 m/s)
PhaseInputs ==
    [on_ground : BOOLEAN,
     baro_altitude : {<<>>} \cup {<<a>> : a \in {0 - 100, 0, 499, 500, 10000}},
     vertical_rate : {<<>>} \cup {<<v>> : v \in {0 - 30, 0 - 26, 0 - 25, 0 - 10,
                                                  0 - 9, 0, 9, 10, 25, 26, 30}}]

PhaseInit ==
    /\ Constructed
    /\ AnalyzersConstructed
    /\ LoopsIdle
    /\ ServicesConstructed
    /\ args \in {<<a>> : a \in PhaseInputs}
    /\ value = <<>>

\* phase = detect_flight_phase(sv.on_ground, sv.vertical_rate, sv.baro_altitude)
ApplyDetectFlightPhase ==
    /\ args # <<>>
    /\ value = <<>>
    /\ value' = <<DetectFlightPhase(args[1].on_ground, args[1].vertical_rate,
                                    args[1].baro_altitude)>>
    /\ UNCHANGED args
    /\ UNCHANGED fn_rest

PhaseNext == ApplyDetectFlightPhase

PhaseSpec == PhaseInit /\ [][PhaseNext]_vars

\* the rules of the phase classification, as conditions on the arguments
OnGroundRule == args[1].on_ground

LowAltitude == args[1].baro_altitude # <<>> /\ args[1].baro_altitude[1] < 500

RateAbsent == args[1].vertical_rate = <<>>

RateBelow(v) == ~RateAbsent /\ args[1].vertical_rate[1] < v

RateAbove(v) == ~RateAbsent /\ args[1].vertical_rate[1] > v

RateNearZero == RateAbove(0 - 10) /\ RateBelow(10)

RawId(kind, v) == [kind |-> kind, v |-> v]

\* Strings of field 1 are sequences of characters: the empty string, blanks
\* only, a callsign padded with blanks, and a callsign; <<>> is null and
\* <<s>> the string s
Callsigns == {<<>>, <<" ">>, <<" ", "K", "L", " ">>, <<"K", "L">>}

\* A well-formed raw frame, with upper-case id and padded callsign
GoodRaw(id) ==
    [fields |-> 17, icao24 |-> RawId("str", id),
     callsign |-> <<<<" ", "K", "L", " ">>>>,
     latitude |-> <<41>>, longitude |-> <<0 - 74>>]

\* the raw frames of a response: well-formed ones, and ones that depart from
\* a well-formed frame in the field count, the id, the callsign or the
\* position
RawFrames ==
    {GoodRaw(i) : i \in {"A1", "b2"}}
    \cup {[GoodRaw("b2") EXCEPT !.fields = n] : n \in {16, 18}}
    \cup {[GoodRaw("b2") EXCEPT !.icao24 = x] :
             x \in {RawId("none", ""), RawId("str", ""), RawId("int", "7")}}
    \cup {[GoodRaw("b2") EXCEPT !.callsign = c] :
             c \in {<<>>} \cup {<<cs>> : cs \in Callsigns}}
    \cup {[GoodRaw("b2") EXCEPT !.latitude = <<>>],
          [GoodRaw("b2") EXCEPT !.longitude = <<>>],
          [GoodRaw("b2") EXCEPT !.latitude = <<0>>]}

RawInit ==
    /\ Constructed
    /\ AnalyzersConstructed
    /\ LoopsIdle
    /\ ServicesConstructed
    /\ args \in UNION {[1..n -> RawFrames] : n \in 0..MaxFrames}
    /\ value = <<>>

RECURSIVE LStrip(_)
LStrip(cs) == IF cs # <<>> /\ cs[1] = " " THEN LStrip(Tail(cs)) ELSE cs

RECURSIVE RStrip(_)
RStrip(cs) ==
    IF cs # <<>> /\ cs[Len(cs)] = " "
    THEN RStrip(SubSeq(cs, 1, Len(cs) - 1)) ELSE cs

\* str.strip()
Strip(cs) == RStrip(LStrip(cs))

\* StateVector.from_array(arr): <<>> for None, else <<sv>>
FromArray(arr) ==
    IF arr.fields < 17 THEN <<>>
    ELSE IF arr.icao24.kind # "str" \/ arr.icao24.v = "" THEN <<>>
    ELSE LET callsign ==
                 IF arr.callsign # <<>> /\ arr.callsign[1] # <<>>
                 THEN IF Strip(arr.callsign[1]) # <<>>
                      THEN <<Strip(arr.callsign[1])>> ELSE <<>>
                 ELSE arr.callsign
         IN <<[icao24 |-> Lower(arr.icao24.v), callsign |-> callsign,
               latitude |-> arr.latitude, longitude |-> arr.longitude]>>

\* StateVector.has_position
HasPosition(sv) == sv.latitude # <<>> /\ sv.longitude # <<>>

RECURSIVE ParseStates(_)
\* the parse loop of get_states over data['states']
ParseStates(states_raw) ==
    IF states_raw = <<>> THEN <<>>
    ELSE LET sv == FromArray(Head(states_raw))
         IN (IF sv # <<>> /\ HasPosition(sv[1]) THEN sv ELSE <<>>)
            \o ParseStates(Tail(states_raw))

\* get_states, from the parsed response on
ApplyParseStates ==
    /\ value = <<>>
    /\ value' = <<ParseStates(args)>>
    /\ UNCHANGED args
    /\ UNCHANGED fn_rest

RawNext == ApplyParseStates

RawSpec == RawInit /\ [][RawNext]_vars

\* the raw frames that pass the field-count, id and position conditions
Eligible(arr) ==
    /\ arr.fields >= 17
    /\ arr.icao24.kind = "str" /\ arr.icao24.v # ""
    /\ arr.latitude # <<>> /\ arr.longitude # <<>>

\* C28: the frames returned are exactly the raw frames with at least 17
\* fields, a non-empty string id and both coordinates, in their order; each
\* has the id lower-cased, both coordinates present, and a callsign that is
\* absent or a non-empty string without surrounding whitespace.
C28_ParsedFrames ==
    value # <<>> =>
        LET out == value[1]
            kept == SelectSeqBy(args, {a \in Range(args) : ~Eligible(a)})
        IN /\ Len(out) = Len(kept)
           /\ \A k \in 1..Len(out) :
                 /\ out[k].icao24 = Lower(kept[k].icao24.v)
                 /\ out[k].latitude = kept[k].latitude
                 /\ out[k].longitude = kept[k].longitude
                 /\ out[k].latitude # <<>> /\ out[k].longitude # <<>>
                 /\ \/ out[k].callsign = <<>>
                    \/ LET cs == out[k].callsign[1]
                       IN cs # <<>> /\ cs[1] # " " /\ cs[Len(cs)] # " "

(* -------------------------- TelemetryAnalyzer ------------------------- *)
\* window_seconds, min_samples, anomaly_z_threshold (2.5, in halves),
\* trend_threshold (0.1, in tenths), _cache_ttl_seconds, and vrate_threshold
\* (15.0 m/s, in tenths of m/s)
WindowSeconds == 300

MinSamples == 5

AnomalyZHalves == 5

TrendTenths == 1

AnalyzerCacheTTL == 10

VrateThreshold == 150

\* instants of the analyzer runs: ages below and at the result cache's TTL
AnalyzerInstants == {90000, 90001, 90010, 90011}

RECURSIVE SumOver(_, _)
\* the sum of g[k] over the indices k in idx
SumOver(idx, g) ==
    IF idx = {} THEN 0
    ELSE LET k == CHOOSE j \in idx : TRUE
         IN g[k] + SumOver(idx \ {k}, g)

MinOver(idx, g) == g[CHOOSE j \in idx : \A k \in idx : g[j] <= g[k]]

MaxOver(idx, g) == g[CHOOSE j \in idx : \A k \in idx : g[j] >= g[k]]

RECURSIVE OrderByTimestamp(_)
\* ORDER BY timestamp ASC; rows of equal timestamp keep their insertion order
OrderByTimestamp(rows) ==
    IF rows = <<>> THEN <<>>
    ELSE LET k == CHOOSE j \in 1..Len(rows) :
                    /\ \A m \in 1..Len(rows) :
                          rows[j].timestamp <= rows[m].timestamp
                    /\ \A m \in 1..(j - 1) :
                          rows[m].timestamp # rows[j].timestamp
         IN <<rows[k]>> \o
            OrderByTimestamp(SubSeq(rows, 1, k - 1)
                             \o SubSeq(rows, k + 1, Len(rows)))

\* _fetch_history: the object's records inside the retention window
FetchHistory(ph, icao24, t) ==
    OrderByTimestamp(
        SelectSeqBy(ph, {r \in Range(ph) :
                            \/ r.icao24 # icao24
                            \/ r.timestamp < t - (RetentionHours * 3600)}))

\* window_mask, as the set of indices it selects
WindowMask(history, t) ==
    {k \in 1..Len(history) : history[k].timestamp >= t - WindowSeconds}

\* the indices of the windowed samples of a metric that are not NaN
ValidIn(history, metric, mask) ==
    {k \in mask : history[k][metric] # <<>>}

\* the samples of a metric, NaN or not, as a function of the index
Column(history, metric) ==
    [k \in 1..Len(history) |->
        IF history[k][metric] = <<>> THEN 0 ELSE history[k][metric][1]]

\* _compute_rolling_stats, had it counted a missing sample as a zero
ComputeRollingStats_ZeroFilled(history, metric, mask) ==
    LET v == Column(history, metric)
    IN IF Cardinality(mask) < MinSamples THEN <<>>
       ELSE <<[count |-> Cardinality(mask),
               sum |-> SumOver(mask, v),
               sumsq |-> SumOver(mask, [k \in DOMAIN v |-> v[k] * v[k]]),
               min_val |-> MinOver(mask, v),
               max_val |-> MaxOver(mask, v)]>>

\* _compute_rolling_stats; mean is sum / count and the squared standard
\* deviation is (count * sumsq - sum * sum) / (count * count)
ComputeRollingStats(history, metric, mask) ==
    LET valid == ValidIn(history, metric, mask)
        v == Column(history, metric)
    IN IF Cardinality(valid) < MinSamples THEN <<>>
       ELSE <<[count |-> Cardinality(valid),
               sum |-> SumOver(valid, v),
               sumsq |-> SumOver(valid, [k \in DOMAIN v |-> v[k] * v[k]]),
               min_val |-> MinOver(valid, v),
               max_val |-> MaxOver(valid, v)]>>

\* _compute_trend, had it compared the slope itself against the threshold
ComputeTrend_Unnormalized(history, metric, mask) ==
    LET valid == ValidIn(history, metric, mask)
        v == Column(history, metric)
        n == Cardinality(valid)
        first == CHOOSE j \in valid : \A k \in valid : j <= k
        t == [k \in 1..Len(history) |->
                 history[k].timestamp - history[first].timestamp]
        num == n * SumOver(valid, [k \in DOMAIN v |-> t[k] * v[k]])
               - SumOver(valid, t) * SumOver(valid, v)
        den == n * SumOver(valid, [k \in DOMAIN v |-> t[k] * t[k]])
               - SumOver(valid, t) * SumOver(valid, t)
    IN IF n < MinSamples THEN "unknown"
       ELSE IF den > 0 /\ 10 * num > TrendTenths * den THEN "increasing"
       ELSE IF den > 0 /\ 10 * num < 0 - (TrendTenths * den)
            THEN "decreasing"
       ELSE "stable"

\* _compute_trend: the least-squares slope num / den of the valid windowed
\* samples over time, divided by their range, against the threshold
ComputeTrend(history, metric, mask) ==
    LET valid == ValidIn(history, metric, mask)
        v == Column(history, metric)
        n == Cardinality(valid)
        first == CHOOSE j \in valid : \A k \in valid : j <= k
        t == [k \in 1..Len(history) |->
                 history[k].timestamp - history[first].timestamp]
        num == n * SumOver(valid, [k \in DOMAIN v |-> t[k] * v[k]])
               - SumOver(valid, t) * SumOver(valid, v)
        den == n * SumOver(valid, [k \in DOMAIN v |-> t[k] * t[k]])
               - SumOver(valid, t) * SumOver(valid, t)
        value_range == MaxOver(valid, v) - MinOver(valid, v)
    IN IF n < MinSamples THEN "unknown"
       ELSE IF value_range > 0 /\ den > 0
                  /\ 10 * num > TrendTenths * den * value_range
            THEN "increasing"
       ELSE IF value_range > 0 /\ den > 0
                  /\ 10 * num < 0 - (TrendTenths * den * value_range)
            THEN "decreasing"
       ELSE "stable"

\* the z-score test of _detect_anomalies, had it flagged a z-score equal to
\* the threshold
ZScoreExceeds_AtLeast(stats, latest) ==
    /\ stats # <<>>
    /\ latest # <<>>
    /\ LET n == stats[1].count
           dev == n * latest[1] - stats[1].sum
           var == n * stats[1].sumsq - stats[1].sum * stats[1].sum
       IN /\ var > 0
          /\ 4 * dev * dev >= AnomalyZHalves * AnomalyZHalves * var

\* the z-score test of _detect_anomalies: the metric has statistics, its
\* latest sample is not NaN, std > 0 and |latest - mean| / std > threshold
ZScoreExceeds(stats, latest) ==
    /\ stats # <<>>
    /\ latest # <<>>
    /\ LET n == stats[1].count
           dev == n * latest[1] - stats[1].sum
           var == n * stats[1].sumsq - stats[1].sum * stats[1].sum
       IN /\ var > 0
          /\ 4 * dev * dev > AnomalyZHalves * AnomalyZHalves * var

\* the vertical-rate test, had it only compared the z-score
VrateAnomaly_ZScoreOnly(stats, latest) == ZScoreExceeds(stats, latest)

\* the vertical-rate test of _detect_anomalies
VrateAnomaly(stats, latest) ==
    /\ stats # <<>>
    /\ latest # <<>>
    /\ Abs(latest[1]) > VrateThreshold
    /\ ZScoreExceeds(stats, latest)

\* analyze_flight past the cache check, on the history fetched at instant t
Analytics(icao24, history, t) ==
    LET mask == WindowMask(history, t)
        latest == history[Len(history)]
        altitude == ComputeRollingStats(history, "baro_altitude", mask)
        speed == ComputeRollingStats(history, "velocity", mask)
        vertical_rate == ComputeRollingStats(history, "vertical_rate", mask)
    IN [icao24 |-> icao24,
        computed_at |-> t,
        total_samples |-> Len(history),
        window_samples |-> Cardinality(mask),
        altitude |-> altitude,
        speed |-> speed,
        vertical_rate |-> vertical_rate,
        heading |-> ComputeRollingStats(history, "true_track", mask),
        altitude_trend |-> ComputeTrend(history, "baro_altitude", mask),
        speed_trend |-> ComputeTrend(history, "velocity", mask),
        is_altitude_anomaly |-> ZScoreExceeds(altitude, latest.baro_altitude),
        is_speed_anomaly |-> ZScoreExceeds(speed, latest.velocity),
        is_vertical_rate_anomaly |->
            VrateAnomaly(vertical_rate, latest.vertical_rate)]

\* FlightAnalytics.has_anomaly
HasAnomaly(a) ==
    a.is_altitude_anomaly \/ a.is_speed_anomaly \/ a.is_vertical_rate_anomaly

(* ---------------------- analyzer: histories, calls -------------------- *)
\* ids as the analyzer's callers spell them
AnalyzerRawIds == AnalyzerIds \cup {"A1"}

\* n times the value x
Repeat(x, n) == [k \in 1..n |-> x]

\* HistoryRecord rows of one object, the last one at instant last, spaced
\* evenly, with the given samples (<<>> for a missing one) of altitude in m,
\* speed in m/s and vertical rate in tenths of m/s
Samples(icao24, last, spacing, alts, speeds, vrates) ==
    [k \in 1..Len(alts) |->
        [icao24 |-> icao24,
         timestamp |-> last - spacing * (Len(alts) - k),
         baro_altitude |-> alts[k], velocity |-> speeds[k],
         vertical_rate |-> vrates[k], true_track |-> <<>>]]

\* the samples base + d, for the deviations d
Around(base, devs) == [k \in 1..Len(devs) |-> <<base + devs[k]>>]

\* eight deviations with mean 0 and standard deviation 10 whose last is
\* 24, 25 or 26
Deviations ==
    {<<0 - 14, 0 - 4, 0 - 3, 0 - 1, 0 - 1, 0 - 1, 0, 24>>,
     <<0 - 12, 0 - 3, 0 - 3, 0 - 2, 0 - 2, 0 - 2, 0 - 1, 25>>,
     <<0 - 8, 0 - 5, 0 - 3, 0 - 3, 0 - 3, 0 - 2, 0 - 2, 26>>}

\* vertical rates in tenths of m/s: level flight ending in a spike of 10.0,
\* 15.0 or 20.0 m/s, and a flight alternating between 0 and 20.0 m/s
VerticalRates ==
    {Around(0, Repeat(0, 7) \o <<v>>) : v \in {100, 150, 200}}
    \cup {Around(0, <<0, 200, 0, 200, 0, 200, 0, 200>>)}

\* seconds between two polls of the source
Spacings == {1, 10}

\* The histories the analyzer is run on, the last record at instant t:
\*  - ten samples climbing by 10 m per sample, at either spacing;
\*  - a constant series of MinSamples samples;
\*  - altitude and speed with mean 1000 and 200 and standard deviation 10,
\*    the latest 2.4, 2.5 or 2.6 deviations off;
\*  - the vertical rate series;
\*  - a series whose altitude is missing in one of MinSamples records;
\*  - MinSamples records one of which is at the edge of the retention
\*    window, and MinSamples - 1 records;
\*  - MinSamples records in the recency window, its edge included, and one
\*    record just outside.
Histories(t) ==
    {Samples("a1", t, sp, Around(1000, [k \in 1..10 |-> 10 * (k - 1)]),
             Around(200, Repeat(0, 10)), Around(0, Repeat(0, 10))) :
        sp \in Spacings}
    \cup {Samples("a1", t, 10, Around(1000, Repeat(0, MinSamples)),
                  Around(200, Repeat(0, MinSamples)),
                  Around(0, Repeat(0, MinSamples)))}
    \cup {Samples("a1", t, 10, Around(1000, d), Around(200, d),
                  Around(0, Repeat(0, 8))) : d \in Deviations}
    \cup {Samples("a1", t, 10, Around(1000, Repeat(0, 8)),
                  Around(200, Repeat(0, 8)), vr) : vr \in VerticalRates}
    \cup {Samples("a1", t, 10,
                  <<<<>>>> \o Around(1000, Repeat(0, MinSamples - 1)),
                  Around(200, Repeat(0, MinSamples)),
                  Around(0, Repeat(0, MinSamples)))}
    \cup {Samples("a1", t - (RetentionHours * 3600), 10, <<<<1000>>>>,
                  <<<<200>>>>, <<<<0>>>>)
          \o Samples("a1", t, 10, Around(1000, Repeat(0, n)),
                     Around(200, Repeat(0, n)), Around(0, Repeat(0, n))) :
             n \in {MinSamples - 2, MinSamples - 1}}
    \cup {Samples("a1", t - WindowSeconds, 1, Around(1000, <<0, 0>>),
                  Around(200, <<0, 0>>), Around(0, <<0, 0>>))
          \o Samples("a1", t, 10, Around(1000, Repeat(0, MinSamples - 1)),
                     Around(200, Repeat(0, MinSamples - 1)),
                     Around(0, Repeat(0, MinSamples - 1)))}

\* everything but the clock, the history table and the analyzers
an_rest == <<observer_location, running, fetch_count, error_count, callbacks,
             pc, states, api_time, session, cb_idx, result, flight_states,
             stop_called, outcome, pre, visible_log, cb_calls, cache, hits,
             misses, last_refresh, rpc, flights, new_cache, ops, ret, r_pre,
             r_mut, last_read, kvars, tvars, lvars, svars, args, value, an_map, an_count>>

\* two analyzers constructed over a Storage that holds one of the histories
AnalyzerInit ==
    /\ now = 90000
    /\ observer_location \in {<<l>> : l \in Locations}
    /\ running = FALSE
    /\ fetch_count = CleanupEvery - 2
    /\ error_count = CleanupEvery - 2
    /\ callbacks = <<>>
    /\ pc = "none"
    /\ states = <<>>
    /\ api_time = 0
    /\ session = <<>>
    /\ cb_idx = 1
    /\ result = 0
    /\ flight_states = <<>>
    /\ position_history \in Histories(90000)
    /\ cycles = 0
    /\ stop_called = FALSE
    /\ outcome = "none"
    /\ pre = [fs |-> <<>>, ph |-> <<>>, err |-> CleanupEvery - 2,
              fetch |-> CleanupEvery - 2]
    /\ visible_log = <<>>
    /\ cb_calls = <<>>
    /\ CacheConstructed
    /\ ClientConstructed
    /\ authenticated = FALSE
    /\ args = <<>>
    /\ value = <<>>
    /\ AnalyzersConstructed
    /\ LoopsIdle
    /\ ServicesConstructed

AnalyzerTick ==
    /\ \E t \in AnalyzerInstants : t > now /\ now' = t
    /\ UNCHANGED <<position_history, cycles, an_cache, an_calls, an_ret>>
    /\ UNCHANGED an_rest

\* a committed cycle of the pipeline appends the next record of the object,
\* one poll after the last
HistoryInserted ==
    /\ cycles < MaxCycles
    /\ \A k \in 1..Len(position_history) : position_history[k].timestamp < now
    /\ cycles' = cycles + 1
    /\ position_history' =
           position_history \o Samples("a1", now, 1, <<<<1100>>>>, <<<<250>>>>,
                                       <<<<0>>>>)
    /\ UNCHANGED <<now, an_cache, an_calls, an_ret>>
    /\ UNCHANGED an_rest

\* analyze_flight, had it fetched the history before looking into the cache
AnalyzeFlight_ReadFirst ==
    /\ an_calls < MaxOps
    /\ an_calls' = an_calls + 1
    /\ \E an \in Analyzers, raw \in AnalyzerRawIds :
       \E history \in {FetchHistory(position_history, Lower(raw), now)} :
          LET icao24 == Lower(raw)
              entry == an_cache[an][icao24]
              hit == entry # <<>> /\ now - entry[1].time < AnalyzerCacheTTL
              short == Len(history) < MinSamples
              analytics == Analytics(icao24, history, now)
          IN /\ an_ret' = [an |-> an, id |-> raw, read |-> TRUE,
                           val |-> IF hit THEN <<entry[1].result>>
                                   ELSE IF short THEN <<>>
                                   ELSE <<analytics>>]
             /\ an_cache' = IF hit \/ short THEN an_cache
                            ELSE [an_cache EXCEPT ![an][icao24] =
                                     <<[time |-> now, result |-> analytics]>>]
    /\ UNCHANGED <<now, position_history, cycles>>
    /\ UNCHANGED an_rest

\* analyze_flight(icao24) on one analyzer
AnalyzeFlight ==
    /\ an_calls < MaxOps
    /\ an_calls' = an_calls + 1
    /\ \E an \in Analyzers, raw \in AnalyzerRawIds :
       \E history \in {FetchHistory(position_history, Lower(raw), now)} :
          LET icao24 == Lower(raw)
              entry == an_cache[an][icao24]
              hit == entry # <<>> /\ now - entry[1].time < AnalyzerCacheTTL
              short == Len(history) < MinSamples
              analytics == Analytics(icao24, history, now)
          IN /\ an_ret' = [an |-> an, id |-> raw, read |-> ~hit,
                           val |-> IF hit THEN <<entry[1].result>>
                                   ELSE IF short THEN <<>>
                                   ELSE <<analytics>>]
             /\ an_cache' = IF hit \/ short THEN an_cache
                            ELSE [an_cache EXCEPT ![an][icao24] =
                                     <<[time |-> now, result |-> analytics]>>]
    /\ UNCHANGED <<now, position_history, cycles>>
    /\ UNCHANGED an_rest

AnalyzerNext == AnalyzerTick \/ HistoryInserted \/ AnalyzeFlight

AnalyzerSpec == AnalyzerInit /\ [][AnalyzerNext]_vars

(* ----------------------- analyzer: properties ------------------------- *)
AnalyzeCalled == an_calls' # an_calls

\* what analyze_flight computes for the id from Storage at this instant
Computed(icao24) ==
    CHOOSE c \in {IF Len(history) < MinSamples THEN <<>>
                  ELSE <<Analytics(icao24, history, now)>> :
                     history \in {FetchHistory(position_history, icao24, now)}} :
        TRUE

\* the entry is younger than the result cache's TTL
Fresh(entry) == entry # <<>> /\ now - entry[1].time < AnalyzerCacheTTL

\* C21: a call made less than 10 seconds after the analyzer computed a
\* result for the id returns that result without reading Storage; a call
\* made 10 seconds or more later, or without an earlier result, reads
\* Storage and returns what it computes from it; a call leaves the result
\* caches of the other analyzers as they were, and its result does not
\* depend on them.
C21_ResultCachePerAnalyzer ==
    [][AnalyzeCalled =>
          LET an == an_ret'.an
              icao24 == Lower(an_ret'.id)
              entry == an_cache[an][icao24]
          IN \A computed \in {Computed(icao24)} :
             /\ Fresh(entry) =>
                   /\ an_ret'.val = <<entry[1].result>>
                   /\ ~an_ret'.read
                   /\ an_cache' = an_cache
             /\ ~Fresh(entry) =>
                   /\ an_ret'.read
                   /\ an_ret'.val = computed
                   /\ computed # <<>> =>
                         an_cache'[an][icao24] =
                             <<[time |-> now, result |-> computed[1]]>>
             /\ \A other \in Analyzers \ {an} :
                   an_cache'[other] = an_cache[other]]_vars

\* an analyzer returned its cached result without reading Storage although
\* Storage has since got another record of the object, while the other
\* analyzer holds no result for it
C21_Witness ==
    /\ an_ret.an = "an1"
    /\ ~an_ret.read
    /\ an_ret.val # <<>>
    /\ an_ret.val[1].total_samples
          < Len(FetchHistory(position_history, Lower(an_ret.id), now))
    /\ an_cache["an2"][Lower(an_ret.id)] = <<>>

\* the metrics of a result and the HistoryRecord column each is taken from
Metrics ==
    {<<"altitude", "baro_altitude">>, <<"speed", "velocity">>,
     <<"vertical_rate", "vertical_rate">>, <<"heading", "true_track">>}

\* stats is what the claim asks for the samples of a column in the history:
\* absent when fewer than MinSamples of the records inside the recency
\* window at instant t carry the metric, else their count, mean, min and max
StatsOver(stats, history, column, t) ==
    LET inside == {k \in 1..Len(history) :
                      /\ t - history[k].timestamp <= WindowSeconds
                      /\ history[k][column] # <<>>}
    IN IF Cardinality(inside) < MinSamples THEN stats = <<>>
       ELSE /\ stats # <<>>
            /\ stats[1].count = Cardinality(inside)
            /\ stats[1].count >= MinSamples
            /\ stats[1].sum =
                  SumOver(inside,
                          [k \in 1..Len(history) |->
                              IF k \in inside THEN history[k][column][1]
                              ELSE 0])
            /\ \E k \in inside : stats[1].min_val = history[k][column][1]
            /\ \E k \in inside : stats[1].max_val = history[k][column][1]
            /\ \A k \in inside :
                  /\ stats[1].min_val <= history[k][column][1]
                  /\ stats[1].max_val >= history[k][column][1]

\* C22 as stated: every call returns absent when the object has fewer than
\* MinSamples records in the retention window; in every result returned,
\* each metric's statistics are absent or have count >= MinSamples, the
\* count being the number of non-missing samples of the metric inside the
\* recency window, and mean, min and max taken over exactly those.
C22_MinSamples ==
    [][AnalyzeCalled =>
          \A history \in {FetchHistory(position_history, Lower(an_ret'.id), now)} :
             /\ Len(history) < MinSamples => an_ret'.val = <<>>
             /\ an_ret'.val # <<>> =>
                   \A m \in Metrics :
                      StatsOver(an_ret'.val[1][m[1]], history, m[2], now)
       ]_vars

\* C22, amended: a call that finds no cached result younger than 10 seconds
\* returns absent when the object has fewer than MinSamples records in the
\* retention window, and in the result it computes each metric's statistics
\* are absent or count, mean, min and max of the non-missing samples inside
\* the recency window, at least MinSamples of them; in every result
\* returned, cached or not, statistics present have count >= MinSamples.
C22_MinSamplesWhenComputed ==
    [][AnalyzeCalled =>
          \A history \in {FetchHistory(position_history, Lower(an_ret'.id), now)} :
             /\ an_ret'.read =>
                   /\ Len(history) < MinSamples => an_ret'.val = <<>>
                   /\ an_ret'.val # <<>> =>
                         \A m \in Metrics :
                            StatsOver(an_ret'.val[1][m[1]], history, m[2], now)
             /\ an_ret'.val # <<>> =>
                   \A m \in Metrics :
                      \/ an_ret'.val[1][m[1]] = <<>>
                      \/ an_ret'.val[1][m[1]][1].count >= MinSamples
       ]_vars

\* a computed result whose altitude statistics are absent, one sample of
\* the window missing, while its speed statistics are present
C22_Witness ==
    /\ an_ret.read
    /\ an_ret.val # <<>>
    /\ an_ret.val[1].window_samples = MinSamples
    /\ an_ret.val[1].altitude = <<>>
    /\ an_ret.val[1].speed # <<>>

\* every record of the history is inside the recency window at instant t
\* and carries an altitude
AllWindowed(history, t) ==
    \A k \in 1..Len(history) :
        /\ history[k].timestamp >= t - WindowSeconds
        /\ history[k].baro_altitude # <<>>

\* ten samples, evenly spaced in time, the altitude rising by 10 from each
\* sample to the next
RisingByTen(history) ==
    /\ Len(history) = 10
    /\ \E spacing \in 1..WindowSeconds :
          \A k \in 1..(Len(history) - 1) :
             /\ history[k + 1].timestamp - history[k].timestamp = spacing
             /\ history[k + 1].baro_altitude[1] - history[k].baro_altitude[1] = 10

\* at least MinSamples samples of one altitude
ConstantSeries(history) ==
    /\ Len(history) >= MinSamples
    /\ \A k \in 1..Len(history) :
          history[k].baro_altitude = history[1].baro_altitude

\* C23: for ten samples inside the window, with strictly increasing
\* timestamps at any uniform spacing, whose altitude rises by 10 per sample,
\* the altitude trend computed is INCREASING; for a constant series of at
\* least MinSamples samples it is STABLE.
C23_TrendOfRisingSeries ==
    [][(AnalyzeCalled /\ an_ret'.read /\ an_ret'.val # <<>>) =>
          \A history \in {FetchHistory(position_history, Lower(an_ret'.id), now)} :
             AllWindowed(history, now) =>
                /\ RisingByTen(history) =>
                      an_ret'.val[1].altitude_trend = "increasing"
                /\ ConstantSeries(history) =>
                      an_ret'.val[1].altitude_trend = "stable"
       ]_vars

\* mean = m and standard deviation = sd for the statistics st
MeanAndStd(st, m, sd) ==
    /\ st.sum = m * st.count
    /\ st.count * st.sumsq - st.sum * st.sum = sd * sd * st.count * st.count

\* |latest - mean| > 2.5 * std and std > 0, for the statistics st: both
\* sides multiplied by 2 * count and squared
Deviates(st, latest) ==
    /\ st.count * st.sumsq > st.sum * st.sum
    /\ 4 * (st.count * latest - st.sum) * (st.count * latest - st.sum)
          > 25 * (st.count * st.sumsq - st.sum * st.sum)

\* the flag is set iff the metric has statistics, its latest sample is
\* present, and the latest sample deviates; for mean 1000 + base and
\* standard deviation 10, latest 26 above the mean is flagged and 24 above
\* is not; zero variance never flags
FlagIffDeviates(flag, stats, latest, mean) ==
    /\ flag <=> (stats # <<>> /\ latest # <<>> /\ Deviates(stats[1], latest[1]))
    /\ (stats # <<>> /\ latest # <<>> /\ MeanAndStd(stats[1], mean, 10)) =>
          /\ latest[1] = mean + 26 => flag
          /\ latest[1] = mean + 24 => ~flag
    /\ (stats # <<>> /\ stats[1].min_val = stats[1].max_val) => ~flag

\* C24: in every result computed, the altitude anomaly flag, and likewise
\* the speed anomaly flag, is set iff the metric has statistics, the latest
\* sample of the metric is present, the rolling standard deviation is above
\* zero and |latest - mean| > 2.5 * std; with mean 1000 and std 10, latest
\* 1026 is flagged and 1024 is not; a zero-variance window never flags.
C24_ZScoreAnomaly ==
    [][(AnalyzeCalled /\ an_ret'.read /\ an_ret'.val # <<>>) =>
          \A history \in {FetchHistory(position_history, Lower(an_ret'.id), now)} :
             LET a == an_ret'.val[1]
                 latest == history[Len(history)]
             IN /\ FlagIffDeviates(a.is_altitude_anomaly, a.altitude,
                                   latest.baro_altitude, 1000)
                /\ FlagIffDeviates(a.is_speed_anomaly, a.speed,
                                   latest.velocity, 200)
       ]_vars

\* a result computed from a window of mean altitude 1000 and standard
\* deviation 10 whose latest altitude is 1026: flagged
C24_Witness ==
    /\ an_ret.read
    /\ an_ret.val # <<>>
    /\ an_ret.val[1].altitude # <<>>
    /\ MeanAndStd(an_ret.val[1].altitude[1], 1000, 10)
    /\ an_ret.val[1].altitude[1].max_val = 1026
    /\ an_ret.val[1].is_altitude_anomaly
    /\ an_ret.val[1].is_speed_anomaly

\* C25: in every result computed, the vertical-rate anomaly flag is set only
\* when the magnitude of the latest vertical rate exceeds 15.0 m/s and its
\* z-score against the rolling mean and standard deviation exceeds 2.5: a
\* latest value of magnitude at most 15.0 is never flagged, however large
\* its z-score, and a value above 15.0 whose z-score is at most 2.5 is
\* never flagged.
C25_VerticalRateTwoStages ==
    [][(AnalyzeCalled /\ an_ret'.read /\ an_ret'.val # <<>>) =>
          \A history \in {FetchHistory(position_history, Lower(an_ret'.id), now)} :
             LET a == an_ret'.val[1]
                 latest == history[Len(history)].vertical_rate
             IN /\ a.is_vertical_rate_anomaly =>
                      /\ a.vertical_rate # <<>> /\ latest # <<>>
                      /\ Abs(latest[1]) > VrateThreshold
                      /\ Deviates(a.vertical_rate[1], latest[1])
                /\ (latest # <<>> /\ Abs(latest[1]) <= VrateThreshold) =>
                      ~a.is_vertical_rate_anomaly
                /\ (a.vertical_rate # <<>> /\ latest # <<>>
                       /\ ~Deviates(a.vertical_rate[1], latest[1])) =>
                      ~a.is_vertical_rate_anomaly
       ]_vars

\* a result computed from level flight ending in a vertical rate of 20.0
\* m/s, 2.6 standard deviations off the mean: flagged
C25_Witness ==
    /\ an_ret.read
    /\ an_ret.val # <<>>
    /\ an_ret.val[1].is_vertical_rate_anomaly
    /\ an_ret.val[1].vertical_rate # <<>>
    /\ an_ret.val[1].vertical_rate[1].max_val > VrateThreshold
    /\ ~an_ret.val[1].is_altitude_anomaly

(* ------------- update_flight_states_with_analytics -------------------- *)
\* a flight_states row as the pipeline wrote it, with the columns of the
\* analytics layer at their defaults
StateRow(sv, t) ==
    [last_contact |-> sv.last_contact, on_ground |-> sv.on_ground,
     baro_altitude |-> sv.baro_altitude, vertical_rate |-> sv.vertical_rate,
     speed_trend |-> <<>>, altitude_trend |-> <<>>, is_anomaly |-> FALSE,
     created_at |-> t, updated_at |-> t]

\* the rows an object can have when the analytics run: heard just now, heard
\* a stale threshold ago, or on the ground
StateRows(i, t) ==
    {StateRow(sv, sv.last_contact) :
        sv \in {f \in Frames(t) \cup Frames(t - StaleThreshold) :
                   f.icao24 = i}}

\* the flight_states tables over the analyzed ids
StateTables(t) ==
    {fs \in UNION {[d -> UNION {StateRows(i, t) : i \in d}] :
                      d \in SUBSET AnalyzerIds} :
        \A i \in DOMAIN fs : fs[i] \in StateRows(i, t)}

WriteBackInit ==
    /\ now = 90000
    /\ observer_location \in {<<l>> : l \in Locations}
    /\ running = FALSE
    /\ fetch_count = CleanupEvery - 2
    /\ error_count = CleanupEvery - 2
    /\ callbacks = <<>>
    /\ pc = "none"
    /\ states = <<>>
    /\ api_time = 0
    /\ session = <<>>
    /\ cb_idx = 1
    /\ result = 0
    /\ flight_states \in StateTables(90000)
    /\ position_history \in Histories(90000)
    /\ cycles = 0
    /\ stop_called = FALSE
    /\ outcome = "none"
    /\ pre = [fs |-> <<>>, ph |-> <<>>, err |-> CleanupEvery - 2,
              fetch |-> CleanupEvery - 2]
    /\ visible_log = <<>>
    /\ cb_calls = <<>>
    /\ CacheConstructed
    /\ ClientConstructed
    /\ authenticated = FALSE
    /\ args = <<>>
    /\ value = <<>>
    /\ AnalyzersConstructed
    /\ LoopsIdle
    /\ ServicesConstructed

\* everything but the clock, the two tables and the analyzers
wb_rest == <<observer_location, running, fetch_count, error_count, callbacks,
             pc, states, api_time, session, cb_idx, result, stop_called,
             outcome, pre, visible_log, cb_calls, cache, hits, misses,
             last_refresh, rpc, flights, new_cache, ops, ret, r_pre, r_mut,
             last_read, kvars, tvars, lvars, svars, args, value, an_ret, cycles>>

WriteBackTick ==
    /\ \E t \in AnalyzerInstants : t > now /\ now' = t
    /\ UNCHANGED <<flight_states, position_history, an_cache, an_calls,
                   an_map, an_count>>
    /\ UNCHANGED wb_rest

\* the ids analyze_all_active selects: the rows that are not on the ground
ActiveIds(fs) == {i \in DOMAIN fs : ~fs[i].on_ground}

\* analyze_flight on the analyzer for each selected id: the result it
\* returns, from its cache or from Storage
AnalyzeEach(an, ids) ==
    [i \in ids |->
        IF Fresh(an_cache[an][i]) THEN <<an_cache[an][i][1].result>>
        ELSE Computed(i)]

\* analyze_all_active, and the return of 0 when it analyzed nothing
AnalyzeAllActive ==
    /\ an_map = <<>>
    /\ an_calls < MaxOps
    /\ an_calls' = an_calls + 1
    /\ \E an \in Analyzers :
       \E each \in {AnalyzeEach(an, ActiveIds(flight_states))} :
          LET analytics_map ==
                  [i \in {j \in DOMAIN each : each[j] # <<>>} |-> each[i][1]]
          IN /\ an_cache' =
                    [an_cache EXCEPT ![an] =
                        [i \in DOMAIN an_cache[an] |->
                            IF i \in DOMAIN analytics_map
                               /\ ~Fresh(an_cache[an][i])
                            THEN <<[time |-> now,
                                    result |-> analytics_map[i]]>>
                            ELSE an_cache[an][i]]]
             /\ IF DOMAIN analytics_map = {}
                THEN an_map' = <<>> /\ an_count' = <<0>>
                ELSE an_map' = <<analytics_map>> /\ an_count' = <<>>
    /\ UNCHANGED <<now, flight_states, position_history>>
    /\ UNCHANGED wb_rest

\* the pipeline's cleanup commits while the analytics are being written back
StaleRowsDeleted ==
    /\ CleanupStates(flight_states, now) # flight_states
    /\ flight_states' = CleanupStates(flight_states, now)
    /\ position_history' = CleanupHistory(position_history, now)
    /\ UNCHANGED <<now, an_cache, an_calls, an_map, an_count>>
    /\ UNCHANGED wb_rest

\* updated += 1 for every entry of analytics_map
WriteBackCount(analytics_map, fs) == Cardinality(DOMAIN analytics_map)

\* the session of update_flight_states_with_analytics: one UPDATE per entry
\* of analytics_map, then the commit; updated_at is set by its onupdate
WriteBack ==
    /\ an_map # <<>>
    /\ LET analytics_map == an_map[1]
       IN /\ flight_states' =
                 [i \in DOMAIN flight_states |->
                     IF i \in DOMAIN analytics_map
                     THEN [flight_states[i] EXCEPT
                              !.speed_trend =
                                  <<analytics_map[i].speed_trend>>,
                              !.altitude_trend =
                                  <<analytics_map[i].altitude_trend>>,
                              !.is_anomaly = HasAnomaly(analytics_map[i]),
                              !.updated_at = now]
                     ELSE flight_states[i]]
          /\ an_count' = <<WriteBackCount(analytics_map, flight_states)>>
    /\ an_map' = <<>>
    /\ UNCHANGED <<now, position_history, an_cache, an_calls>>
    /\ UNCHANGED wb_rest

WriteBackNext ==
    WriteBackTick \/ AnalyzeAllActive \/ StaleRowsDeleted \/ WriteBack

WriteBackSpec == WriteBackInit /\ [][WriteBackNext]_vars

\* the step is the write of update_flight_states_with_analytics
Written == an_map # <<>> /\ an_map' = <<>>

\* C26: the write changes, for every analyzed object that has a row, the
\* row's speed trend, altitude trend and anomaly boolean (the OR of the three
\* flags) and nothing else, leaves the rows of the other objects alone, and
\* returns the number of rows it updated, also when a row was deleted
\* between the analysis and the write; every analyzed object is airborne.
C26_WriteBack ==
    [][/\ an_map' # <<>> /\ an_map = <<>> =>
             DOMAIN an_map'[1] \subseteq ActiveIds(flight_states)
       /\ Written =>
             LET analytics_map == an_map[1]
                 updated == DOMAIN analytics_map \cap DOMAIN flight_states
             IN /\ DOMAIN flight_states' = DOMAIN flight_states
                /\ \A i \in updated :
                      flight_states'[i] =
                          [flight_states[i] EXCEPT
                              !.speed_trend =
                                  <<analytics_map[i].speed_trend>>,
                              !.altitude_trend =
                                  <<analytics_map[i].altitude_trend>>,
                              !.is_anomaly =
                                  \/ analytics_map[i].is_altitude_anomaly
                                  \/ analytics_map[i].is_speed_anomaly
                                  \/ analytics_map[i].is_vertical_rate_anomaly]
                /\ \A i \in DOMAIN flight_states \ updated :
                      flight_states'[i] = flight_states[i]
                /\ an_count' = <<Cardinality(updated)>>]_vars

(* ------------ set_observer_location during a cycle -------------------- *)
\* the location the pipeline was constructed with, and the one the observer
\* moves to
ObserverLocations == Locations \cup {<<43, 0 - 72>>}

\* the locals of a cycle that has read nothing yet
NoReads == [lat |-> 0, query |-> <<>>, k |-> 1, enriched |-> <<>>,
            records |-> <<>>]

LocationInit ==
    /\ PipelineConstructed
    /\ observer_location # <<>>
    /\ CacheConstructed
    /\ ClientConstructed
    /\ ExtrasIdle
    /\ authenticated = FALSE

\* everything a cycle and set_observer_location leave alone
loc_rest == <<running, callbacks, session, cb_idx, result, stop_called,
              outcome, pre, visible_log, cb_calls, cache, hits, misses,
              last_refresh, rpc, flights, new_cache, ops, ret, r_pre, r_mut,
              last_read, kvars, tvars, avars, svars, thread, loops,
              callers>>

\* set_observer_location(lat, lon), called by another thread: the observer
\* moves away from the location the pipeline was constructed with
ObserverMoved ==
    /\ observer_location[1] \in Locations
    /\ \E l \in ObserverLocations \ Locations : observer_location' = <<l>>
    /\ UNCHANGED <<now, pc, local, states, api_time, fetch_count, error_count,
                   flight_states, position_history, cycles>>
    /\ UNCHANGED loc_rest

\* run_continuous wakes from its sleep and fetch_and_process passes its guard
LoopGuard ==
    /\ pc = "none"
    /\ cycles < MaxCycles
    /\ observer_location # <<>>
    /\ cycles' = cycles + 1
    /\ now' = now + PollInterval
    /\ pc' = "query_lat"
    /\ local' = NoReads
    /\ UNCHANGED <<observer_location, states, api_time, fetch_count,
                   error_count, flight_states, position_history>>
    /\ UNCHANGED loc_rest

\* one evaluation of self.observer_location[0]
ReadLatitude ==
    /\ pc \in {"query_lat", "enrich_lat", "history_lat"}
    /\ local' = [local EXCEPT !.lat = observer_location[1][1]]
    /\ pc' = CASE pc = "query_lat" -> "query_lon"
               [] pc = "enrich_lat" -> "enrich_lon"
               [] pc = "history_lat" -> "history_lon"
    /\ UNCHANGED <<now, observer_location, states, api_time, fetch_count,
                   error_count, flight_states, position_history, cycles>>
    /\ UNCHANGED loc_rest

\* one evaluation of self.observer_location[1], and the call that takes the
\* two values: get_states_by_location's arguments, _enrich_state's distance
\* of the frame, _batch_insert_history's distance of the frame
ReadLongitude ==
    /\ pc \in {"query_lon", "enrich_lon", "history_lon"}
    /\ LET loc == <<<<local.lat, observer_location[1][2]>>>>
           sv == states[local.k]
           last == local.k = Len(states)
       IN CASE pc = "query_lon" ->
                  /\ local' = [local EXCEPT !.query = loc]
                  /\ pc' = "fetch"
            [] pc = "enrich_lon" ->
                  /\ local' = [local EXCEPT
                                  !.enriched =
                                      Append(@, [icao24 |-> sv.icao24,
                                                 row |-> EnrichState(sv, now,
                                                                     loc)]),
                                  !.k = IF last THEN 1 ELSE @ + 1]
                  /\ pc' = IF last THEN "history_lat" ELSE "enrich_lat"
            [] pc = "history_lon" ->
                  /\ local' = [local EXCEPT
                                  !.records =
                                      BatchInsertHistory(@, <<sv>>, api_time,
                                                         loc),
                                  !.k = IF last THEN 1 ELSE @ + 1]
                  /\ pc' = IF last THEN "commit" ELSE "history_lat"
    /\ UNCHANGED <<now, observer_location, states, api_time, fetch_count,
                   error_count, flight_states, position_history, cycles>>
    /\ UNCHANGED loc_rest

\* get_states_by_location returns: no frame, return 0; else count the fetch
GetStatesByLocation ==
    /\ pc = "fetch"
    /\ \E fr \in FrameLists(now) :
          /\ states' = fr
          /\ api_time' = now
          /\ pc' = IF fr = <<>> THEN "none" ELSE "enrich_lat"
          /\ fetch_count' = IF fr = <<>> THEN fetch_count ELSE fetch_count + 1
    /\ UNCHANGED <<now, observer_location, local, error_count, flight_states,
                   position_history, cycles>>
    /\ UNCHANGED loc_rest

\* get_states_by_location raises: count the error, return -1
GetStatesRaises ==
    /\ pc = "fetch"
    /\ error_count' = error_count + 1
    /\ pc' = "none"
    /\ UNCHANGED <<now, observer_location, local, states, api_time,
                   fetch_count, flight_states, position_history, cycles>>
    /\ UNCHANGED loc_rest

\* the upsert of the enriched rows, the insert of the records, the cleanup
\* when due, and the commit
CommitCycle ==
    /\ pc = "commit"
    /\ LET rows == local.enriched
           fs == [i \in DOMAIN flight_states \cup BatchIds(rows) |->
                     IF i \in BatchIds(rows) THEN LastFrame(rows, i).row
                     ELSE flight_states[i]]
           ph == position_history \o local.records
       IN IF CleanupDue(fetch_count)
          THEN /\ flight_states' = CleanupStates(fs, now)
               /\ position_history' = CleanupHistory(ph, now)
          ELSE /\ flight_states' = fs
               /\ position_history' = ph
    /\ pc' = "none"
    /\ UNCHANGED <<now, observer_location, local, states, api_time,
                   fetch_count, error_count, cycles>>
    /\ UNCHANGED loc_rest

LocationNext ==
    \/ ObserverMoved
    \/ LoopGuard
    \/ ReadLatitude
    \/ ReadLongitude
    \/ GetStatesByLocation
    \/ GetStatesRaises
    \/ CommitCycle

LocationSpec == LocationInit /\ [][LocationNext]_vars

\* the step is the commit of a cycle
Committed == pc = "commit" /\ pc' = "none"

\* C29: with set_observer_location running concurrently, every cycle uses
\* one observer location, wholly the old or wholly the new one, for its
\* bounding-box query and for every distance it writes: the query does not
\* combine the latitude of one location with the longitude of the other, and
\* no frame gets a CurrentState distance and a HistoryRecord distance
\* computed from different locations.
C29_OneLocationPerCycle ==
    [][Committed =>
          \E l \in ObserverLocations :
             /\ local.query = <<l>>
             /\ \A k \in 1..Len(states) :
                   states[k].icao24 \in DOMAIN flight_states' =>
                      flight_states'[states[k].icao24].distance_km =
                          DistanceKm(<<l>>, states[k])
             /\ \A k \in 1..Len(position_history') :
                   position_history'[k].timestamp = api_time =>
                      position_history'[k].distance_km =
                          DistanceKm(<<l>>,
                                     LastFrame(states,
                                               position_history'[k].icao24))]_vars

(* ---------------- start_background, stop, the loop threads ------------ *)
LoopsInit ==
    /\ PipelineConstructed
    /\ observer_location # <<>>
    /\ CacheConstructed
    /\ ClientConstructed
    /\ ExtrasIdle
    /\ authenticated = FALSE

\* everything the callers and the loop threads leave alone
loops_rest == <<observer_location, callbacks, pc, states, api_time, session,
                cb_idx, result, stop_called, outcome, pre, visible_log,
                cb_calls, cache, hits, misses, last_refresh, rpc, flights,
                new_cache, ops, ret, r_pre, r_mut, last_read, kvars, tvars,
                avars, svars,
                local>>

\* what a caller or a loop thread leaves alone of the pipeline's tables
tables == <<now, fetch_count, error_count, flight_states, position_history,
            cycles>>

\* Thread.is_alive(): started and not yet returned from run_continuous
IsAlive(k) == loops[k] \in {"started", "while", "cycle"}

\* start_background: the test of self._thread
StartBackgroundCheck(c) ==
    /\ callers[c] = "idle"
    /\ Len(loops) < MaxCalls
    /\ callers' = [callers EXCEPT ![c] =
                      IF thread # <<>> /\ IsAlive(thread[1]) THEN "idle"
                      ELSE "checked"]
    /\ UNCHANGED <<running, thread, loops>>
    /\ UNCHANGED tables
    /\ UNCHANGED loops_rest

\* start_background: self._thread = threading.Thread(..)
StartBackgroundAssign(c) ==
    /\ callers[c] = "checked"
    /\ loops' = Append(loops, "created")
    /\ thread' = <<Len(loops) + 1>>
    /\ callers' = [callers EXCEPT ![c] = "assigned"]
    /\ UNCHANGED running
    /\ UNCHANGED tables
    /\ UNCHANGED loops_rest

\* start_background: self._thread.start(), which raises on a thread that
\* was started already
StartBackgroundStart(c) ==
    /\ callers[c] = "assigned"
    /\ loops' = IF loops[thread[1]] = "created"
                THEN [loops EXCEPT ![thread[1]] = "started"]
                ELSE loops
    /\ callers' = [callers EXCEPT ![c] = "idle"]
    /\ UNCHANGED <<running, thread>>
    /\ UNCHANGED tables
    /\ UNCHANGED loops_rest

\* stop: self._running = False, then the join when there is a thread
StopCalled(c) ==
    /\ callers[c] = "idle"
    /\ running' = FALSE
    /\ callers' = [callers EXCEPT ![c] =
                      IF thread # <<>> THEN "joining" ELSE "idle"]
    /\ UNCHANGED <<thread, loops>>
    /\ UNCHANGED tables
    /\ UNCHANGED loops_rest

\* stop: join(timeout=5) returns, the thread having exited or not
JoinReturns(c) ==
    /\ callers[c] = "joining"
    /\ callers' = [callers EXCEPT ![c] = "idle"]
    /\ UNCHANGED <<running, thread, loops>>
    /\ UNCHANGED tables
    /\ UNCHANGED loops_rest

\* run_continuous on a loop thread: self._running = True
RunContinuous(k) ==
    /\ loops[k] = "started"
    /\ running' = TRUE
    /\ loops' = [loops EXCEPT ![k] = "while"]
    /\ UNCHANGED <<thread, callers>>
    /\ UNCHANGED tables
    /\ UNCHANGED loops_rest

\* while self._running
WhileRunning(k) ==
    /\ loops[k] = "while"
    /\ running => cycles < MaxCycles
    /\ loops' = [loops EXCEPT ![k] = IF running THEN "cycle" ELSE "exited"]
    /\ cycles' = IF running THEN cycles + 1 ELSE cycles
    /\ UNCHANGED <<running, thread, callers>>
    /\ UNCHANGED <<now, fetch_count, error_count, flight_states,
                   position_history>>
    /\ UNCHANGED loops_rest

\* fetch_and_process on a loop thread, then the sleep: the source raises, or
\* returns no frame, or the frames are written and committed
FetchAndProcess(k) ==
    /\ loops[k] = "cycle"
    /\ loops' = [loops EXCEPT ![k] = "while"]
    /\ now' = now + PollInterval
    /\ \/ /\ error_count' = error_count + 1
          /\ UNCHANGED <<fetch_count, flight_states, position_history>>
       \/ \E fr \in FrameLists(now) :
             IF fr = <<>>
             THEN UNCHANGED <<fetch_count, error_count, flight_states,
                              position_history>>
             ELSE LET fs == BatchUpsertStates(flight_states, fr, now,
                                              observer_location)
                      ph == BatchInsertHistory(position_history, fr, now,
                                               observer_location)
                      due == CleanupDue(fetch_count + 1)
                  IN /\ fetch_count' = fetch_count + 1
                     /\ flight_states' =
                            IF due THEN CleanupStates(fs, now) ELSE fs
                     /\ position_history' =
                            IF due THEN CleanupHistory(ph, now) ELSE ph
                     /\ UNCHANGED error_count
    /\ UNCHANGED <<running, thread, callers, cycles>>
    /\ UNCHANGED loops_rest

LoopsNext ==
    \/ \E c \in Threads :
          \/ StartBackgroundCheck(c)
          \/ StartBackgroundAssign(c)
          \/ StartBackgroundStart(c)
          \/ StopCalled(c)
          \/ JoinReturns(c)
    \/ \E k \in 1..Len(loops) :
          \/ RunContinuous(k)
          \/ WhileRunning(k)
          \/ FetchAndProcess(k)

LoopsSpec == LoopsInit /\ [][LoopsNext]_vars

\* the loop threads that are executing a cycle
Executing == {k \in 1..Len(loops) : loops[k] = "cycle"}

\* C30: whatever the interleaving of start_background and stop calls on the
\* pipeline, calls from different threads included, at most one loop thread
\* executes cycles at any time.
C30_OneLoopThread == Cardinality(Executing) <= 1

(* ------------- the loop kept running: stale rows ---------------------- *)
\* the instant of the cycles that wrote the rows Storage starts with: one
\* staleness threshold before the first cycle of the run
EarlierInstant == 90000 - StaleThreshold

\* the loop was started and has run before: Storage holds the rows of an
\* earlier cycle
KeptRunningInit ==
    /\ now = 90000
    /\ observer_location \in {<<l>> : l \in Locations}
    /\ running = TRUE
    /\ fetch_count \in 0..(CleanupEvery - 1)
    /\ error_count = 0
    /\ callbacks = <<>>
    /\ pc = "none"
    /\ states = <<>>
    /\ api_time = 0
    /\ session = <<>>
    /\ cb_idx = 1
    /\ result = 0
    /\ flight_states \in
           {BatchUpsertStates(<<>>, fr, EarlierInstant, observer_location) :
               fr \in FrameLists(EarlierInstant)}
    /\ position_history = <<>>
    /\ cycles = 0
    /\ stop_called = FALSE
    /\ outcome = "none"
    /\ pre = [fs |-> <<>>, ph |-> <<>>, err |-> CleanupEvery - 2,
              fetch |-> CleanupEvery - 2]
    /\ visible_log = <<>>
    /\ cb_calls = <<>>
    /\ CacheConstructed
    /\ ClientConstructed
    /\ ExtrasIdle
    /\ authenticated = FALSE

\* the last records of the table, the ones the model keeps
LastRecords(ph) ==
    IF Len(ph) <= MaxFrames THEN ph
    ELSE SubSeq(ph, Len(ph) - MaxFrames + 1, Len(ph))

\* one pass of run_continuous with a source and a Storage that do not fail:
\* the sleep, then fetch_and_process.  No frame: return 0.  Otherwise the
\* fetch is counted (the model keeps the count modulo the cleanup period),
\* the frames are written, and the cleanup runs when due.  The passes are
\* counted modulo 2, so that a pass is a step also once the clock is no
\* longer followed.
KeptRunningCycle ==
    /\ running
    /\ now' = IF now < 90000 + (MaxPolls * PollInterval)
              THEN now + PollInterval ELSE now
    /\ \E fr \in FrameLists(now') :
          IF fr = <<>>
          THEN UNCHANGED <<fetch_count, flight_states, position_history,
                           states, api_time>>
          ELSE LET fs == BatchUpsertStates(flight_states, fr, now',
                                           observer_location)
                   ph == BatchInsertHistory(position_history, fr, now',
                                            observer_location)
                   due == CleanupDue(fetch_count + 1)
               IN /\ fetch_count' = (fetch_count + 1) % CleanupEvery
                  /\ states' = fr
                  /\ api_time' = now'
                  /\ flight_states' =
                         IF due THEN CleanupStates(fs, now') ELSE fs
                  /\ position_history' =
                         LastRecords(IF due THEN CleanupHistory(ph, now')
                                     ELSE ph)
    /\ cycles' = (cycles + 1) % 2
    /\ UNCHANGED <<observer_location, running, error_count, callbacks, pc,
                   session, cb_idx, result, stop_called, outcome, pre,
                   visible_log, cb_calls>>
    /\ UNCHANGED cvars

KeptRunningNext == KeptRunningCycle

KeptRunningSpec ==
    KeptRunningInit /\ [][KeptRunningNext]_vars /\ WF_vars(KeptRunningCycle)

\* the object has a row whose last contact is older than the threshold
StaleRow(i) ==
    /\ i \in DOMAIN flight_states
    /\ flight_states[i].last_contact < now - StaleThreshold

\* C31: with the loop kept running and every fetch and transaction
\* succeeding, whatever the number of frames of each fetch, a stale row is
\* eventually removed or refreshed by a newer frame.
C31_StaleRowDeleted ==
    \A i \in Ids : StaleRow(i) ~> ~StaleRow(i)

(* -------------------- the distance of every frame --------------------- *)
\* C32: every CurrentState row and every HistoryRecord written by a cycle
\* has a distance that is present, whatever the position of the frame,
\* latitude 0 or longitude 0 included.
C32_DistancePresent ==
    /\ \A i \in DOMAIN flight_states : flight_states[i].distance_km # <<>>
    /\ \A k \in 1..Len(position_history) :
          position_history[k].distance_km # <<>>

(* ------------------ FlightCache.update, eviction ---------------------- *)
\* sizes of the map before the call: empty, around the capacity, and around
\* the sizes at which a tenth of the entries is one and two entries
MapSizes == 0..(MaxEntries + 1) \cup {9, 10, 11, 19, 20, 21}

\* the entry _enrich_flight builds for object k at time t; the objects are
\* numbered here
NumberedEntry(k, t, via) ==
    EnrichFlight(k, EnrichState(CHOOSE f \in Frames(t) : ~f.on_ground, t,
                                <<CHOOSE l \in Locations : TRUE>>), t, via)

\* a map of n entries, its cache-insertion times rising, falling, all
\* equal, or in pairs, in the order of the dict
NumberedMap(n, order) ==
    [k \in 1..n |->
        NumberedEntry(k,
                      CASE order = "rising" -> 90000 + k
                        [] order = "falling" -> 90000 + (n - k)
                        [] order = "equal" -> 90000
                        [] order = "pairs" -> 90000 + ((n - k) \div 2),
                      "refresh")]

\* the map, and the object and time of the update: an object of the map or
\* a new one, at the time of the latest entry or later
UpdateInputs ==
    UNION {{[cache |-> NumberedMap(n, order), id |-> k, at |-> t] :
               order \in {"rising", "falling", "equal", "pairs"},
               k \in {1, n, n + 1} \ {0}, t \in {90000, 90100}} :
           n \in MapSizes}

UpdateFnInit ==
    /\ Constructed
    /\ AnalyzersConstructed
    /\ LoopsIdle
    /\ ServicesConstructed
    /\ args \in {<<a>> : a \in UpdateInputs}
    /\ value = <<>>

\* cache.update(flight) on the map
ApplyUpdate ==
    /\ args # <<>>
    /\ value = <<>>
    /\ value' = <<UpdateCache(args[1].cache,
                              NumberedEntry(args[1].id, args[1].at,
                                            "update"))>>
    /\ UNCHANGED args
    /\ UNCHANGED fn_rest

UpdateFnNext == ApplyUpdate

UpdateFnSpec == UpdateFnInit /\ [][UpdateFnNext]_vars

\* the map with the entry of the update stored, before any eviction
Stored == Put(args[1].cache,
              NumberedEntry(args[1].id, args[1].at, "update"))

\* the larger of 1 and a tenth of n, rounded down
TenthOf(n) == IF n \div 10 > 1 THEN n \div 10 ELSE 1

\* C33: when update makes the number of entries n exceed the capacity,
\* exactly max(1, floor(n / 10)) entries are removed in the call and no
\* removed entry was inserted later than a kept one; otherwise update
\* removes nothing and only inserts or overwrites the one entry.
C33_EvictOldestTenth ==
    value # <<>> =>
       LET n == Len(Stored)
           kept == Range(value[1])
           removed == Range(Stored) \ kept
       IN /\ kept \subseteq Range(Stored)
          /\ Len(value[1]) = Cardinality(kept)
          /\ IF n > MaxEntries
             THEN /\ Cardinality(removed) = TenthOf(n)
                  /\ \A x \in removed, y \in kept : x.cached_at <= y.cached_at
             ELSE /\ removed = {}
                  /\ \E x \in kept :
                        x.icao24 = args[1].id /\ x.cached_at = args[1].at
                  /\ \A x \in kept :
                        x.icao24 # args[1].id => x \in Range(args[1].cache)

\* an update that made the map hold 21 entries removed two of them
C33_Witness ==
    /\ value # <<>>
    /\ Len(Stored) = 21
    /\ Len(value[1]) = 19

(* ------------------ FlightCache: the capacity bound ------------------- *)
\* the objects with a row in Storage when the cache is constructed: more
\* than the cache's capacity
IdPool == <<"a1", "b2", "c3", "d4", "e5", "f6">>

StoredIds == {IdPool[k] : k \in 1..(MaxEntries + 2)}

\* the cache constructed over a Storage that an earlier run of the pipeline
\* has filled, and refresh_from_database called
CapacityInit ==
    /\ now = 90000
    /\ observer_location \in {<<l>> : l \in Locations}
    /\ running = FALSE
    /\ fetch_count = CleanupEvery - 2
    /\ error_count = CleanupEvery - 2
    /\ callbacks = <<>>
    /\ pc = "none"
    /\ states = <<>>
    /\ api_time = 0
    /\ session = <<>>
    /\ cb_idx = 1
    /\ result = 0
    /\ flight_states =
           [i \in StoredIds |->
               EnrichState(CHOOSE f \in Frames(90000) : ~f.on_ground, 90000,
                           observer_location)]
    /\ position_history = <<>>
    /\ cycles = 0
    /\ stop_called = FALSE
    /\ outcome = "none"
    /\ pre = [fs |-> <<>>, ph |-> <<>>, err |-> CleanupEvery - 2,
              fetch |-> CleanupEvery - 2]
    /\ visible_log = <<>>
    /\ cb_calls = <<>>
    /\ cache = <<>>
    /\ hits = 0
    /\ misses = 0
    /\ last_refresh = 0
    /\ rpc = "read"
    /\ flights = <<>>
    /\ new_cache = <<>>
    /\ ops = 0
    /\ ret = [op |-> "none", arg |-> "", val |-> <<>>, age |-> <<>>,
              rpc |-> "idle"]
    /\ r_pre = <<>>
    /\ r_mut = FALSE
    /\ last_read = {}
    /\ gpc = [t \in Threads |-> "idle"]
    /\ gtmp = [t \in Threads |-> 0]
    /\ gets = 0
    /\ ClientConstructed
    /\ ExtrasIdle
    /\ authenticated = FALSE

\* the refresh, and the calls of the cache's clients
CapacityNext ==
    \/ RefreshRead \/ RefreshBuildOne \/ RefreshSwap
    \/ Get \/ GetAll \/ Update \/ Invalidate \/ Clear

CapacitySpec == CapacityInit /\ [][CapacityNext]_vars

\* C34: whatever FlightCache operations came before, when an update call
\* returns the map holds at most max_entries entries, the one just stored
\* among them.
C34_CapacityEnforced ==
    [][ops' # ops /\ ret'.op = "update" =>
          /\ Len(cache') <= MaxEntries
          /\ ret'.arg \in IdsOf(cache')]_vars

(* ------------- the upsert and the analytics columns ------------------- *)
\* ON CONFLICT DO UPDATE, had its SET clause named every column
OnConflictUpdate_AllColumns(old, new) == new

\* ON CONFLICT(icao24) DO UPDATE SET ..: the columns of the frame and
\* updated_at are taken from the row proposed for insertion
OnConflictUpdate(old, new) ==
    [old EXCEPT !.last_contact = new.last_contact,
                !.on_ground = new.on_ground,
                !.baro_altitude = new.baro_altitude,
                !.vertical_rate = new.vertical_rate,
                !.updated_at = new.updated_at]

RECURSIVE UpsertRows(_, _, _)
\* _batch_upsert_states on rows that carry the analytics columns: one
\* statement per frame, INSERT with the column defaults or the update
UpsertRows(fs, svs, t) ==
    IF svs = <<>> THEN fs
    ELSE LET sv == Head(svs)
             fs1 == [i \in (DOMAIN fs) \cup {sv.icao24} |->
                        IF i # sv.icao24 THEN fs[i]
                        ELSE IF i \in DOMAIN fs
                             THEN OnConflictUpdate(fs[i], StateRow(sv, t))
                             ELSE StateRow(sv, t)]
         IN UpsertRows(fs1, Tail(svs), t)

\* _batch_insert_history: the records of the frames, with their telemetry
HistoryRows(svs, api) ==
    [k \in 1..Len(svs) |->
        [icao24 |-> svs[k].icao24,
         timestamp |-> OrElse(svs[k].time_position, api),
         baro_altitude |-> svs[k].baro_altitude, velocity |-> <<>>,
         vertical_rate |-> svs[k].vertical_rate, true_track |-> <<>>]]

\* the frame, flying at the altitude of the recorded histories
NearHistory(sv) ==
    IF sv.baro_altitude = <<>> THEN sv
    ELSE [sv EXCEPT !.baro_altitude = <<1100>>]

\* a cycle of the pipeline commits: upsert, history, cleanup when due
IngestionCommitted ==
    /\ cycles < MaxCycles
    /\ cycles' = cycles + 1
    /\ fetch_count' = fetch_count + 1
    /\ pre' = [fs |-> flight_states, ph |-> position_history,
               err |-> error_count, fetch |-> fetch_count]
    /\ \E fetched \in FrameLists(now) \ {<<>>} :
          LET fr == [k \in DOMAIN fetched |-> NearHistory(fetched[k])]
              fs == UpsertRows(flight_states, fr, now)
              ph == position_history \o HistoryRows(fr, now)
              due == CleanupDue(fetch_count + 1)
          IN /\ states' = fr
             /\ api_time' = now
             /\ flight_states' = IF due THEN CleanupStates(fs, now) ELSE fs
             /\ position_history' = IF due THEN CleanupHistory(ph, now) ELSE ph
    /\ UNCHANGED <<now, observer_location, running, error_count, callbacks,
                   pc, session, cb_idx, result, stop_called, outcome,
                   visible_log, cb_calls>>
    /\ UNCHANGED cvars

\* the write-back and the cycles of the pipeline, in any order
SurvivalNext == AnalyzeAllActive \/ WriteBack \/ IngestionCommitted

\* Storage holds the row of an airborne object and a history of it that is
\* long enough to be analyzed
SurvivalInit ==
    /\ WriteBackInit
    /\ DOMAIN flight_states = {"a1"}
    /\ ~flight_states["a1"].on_ground
    /\ Len(position_history) > MinSamples

SurvivalSpec == SurvivalInit /\ [][SurvivalNext]_vars

\* the analytics columns of a row
AnalyticsColumns(row) ==
    <<row.speed_trend, row.altitude_trend, row.is_anomaly>>

AnalyticsEvery == 6

\* _enrich_flight on a row that carries the analytics columns
EnrichAnalytics(id, row, t) ==
    [icao24 |-> id, on_ground |-> row.on_ground,
     speed_trend |-> row.speed_trend, altitude_trend |-> row.altitude_trend,
     is_anomaly |-> row.is_anomaly, cached_at |-> t, via |-> "refresh"]

\* everything but the loop's position, the tables, the cache's map and the
\* analytics in progress
cbk_rest == <<now, observer_location, running, error_count, callbacks,
              session, result, stop_called, outcome, visible_log, cb_calls,
              hits, misses, rpc, flights, new_cache, ops, ret, r_pre, r_mut,
              kvars, tvars, lvars, svars, args, value, an_cache, an_calls, an_ret>>

\* fetch_and_process up to the commit, with frames to store: upsert, history,
\* cleanup when due; the callbacks follow
CallbackCycle ==
    /\ pc = "none"
    /\ cycles < MaxCycles
    /\ cycles' = cycles + 1
    /\ fetch_count' = fetch_count + 1
    /\ pre' = [fs |-> flight_states, ph |-> position_history,
               err |-> error_count, fetch |-> fetch_count]
    /\ \E fetched \in FrameLists(now) \ {<<>>} :
          LET fr == [k \in DOMAIN fetched |-> NearHistory(fetched[k])]
              fs == UpsertRows(flight_states, fr, now)
              ph == position_history \o HistoryRows(fr, now)
              due == CleanupDue(fetch_count + 1)
          IN /\ states' = fr
             /\ api_time' = now
             /\ flight_states' = IF due THEN CleanupStates(fs, now) ELSE fs
             /\ position_history' = IF due THEN CleanupHistory(ph, now) ELSE ph
    /\ pc' = "callbacks"
    /\ cb_idx' = 1
    /\ UNCHANGED <<cache, last_refresh, last_read, an_map, an_count>>
    /\ UNCHANGED cbk_rest

\* on_ingestion_update: flight_cache.refresh_from_database()
OnUpdateRefresh ==
    /\ pc = "callbacks"
    /\ cb_idx = 1
    /\ \E fl \in RowLists(flight_states) :
          cache' = [k \in 1..Len(fl) |->
                       EnrichAnalytics(fl[k], flight_states[fl[k]], now)]
    /\ last_refresh' = now
    /\ last_read' = DOMAIN flight_states
    /\ cb_idx' = 2
    /\ an_count' = <<>>
    /\ UNCHANGED <<pc, cycles, fetch_count, pre, states, api_time,
                   flight_states, position_history, an_map>>
    /\ UNCHANGED cbk_rest

\* on_ingestion_update: if pipeline._fetch_count % 6 == 0, the analysis of
\* update_flight_states_with_analytics on a TelemetryAnalyzer() made for it,
\* whose result cache is empty
OnUpdateAnalyze ==
    /\ pc = "callbacks"
    /\ cb_idx = 2
    /\ fetch_count % AnalyticsEvery = 0
    /\ an_map = <<>>
    /\ an_count = <<>>
    /\ \E each \in {[i \in ActiveIds(flight_states) |-> Computed(i)]} :
          LET analytics_map ==
                  [i \in {j \in DOMAIN each : each[j] # <<>>} |-> each[i][1]]
          IN IF DOMAIN analytics_map = {}
             THEN an_map' = <<>> /\ an_count' = <<0>>
             ELSE an_map' = <<analytics_map>> /\ an_count' = <<>>
    /\ UNCHANGED <<pc, cb_idx, cycles, fetch_count, pre, states, api_time,
                   flight_states, position_history, cache, last_refresh,
                   last_read>>
    /\ UNCHANGED cbk_rest

\* on_ingestion_update returns: the analytics were not due, or are done
OnUpdateReturn ==
    /\ pc = "callbacks"
    /\ cb_idx = 2
    /\ an_map = <<>>
    /\ fetch_count % AnalyticsEvery # 0 \/ an_count # <<>>
    /\ pc' = "none"
    /\ cb_idx' = 1
    /\ UNCHANGED <<cycles, fetch_count, pre, states, api_time, flight_states,
                   position_history, cache, last_refresh, last_read, an_map,
                   an_count>>
    /\ UNCHANGED cbk_rest

CallbackNext ==
    \/ CallbackCycle \/ OnUpdateRefresh \/ OnUpdateAnalyze \/ WriteBack
    \/ OnUpdateReturn

\* Storage as in SurvivalInit, AnalyticsEvery - 2 fetches before the
\* analytics are due
CallbackInit == SurvivalInit

CallbackSpec == CallbackInit /\ [][CallbackNext]_vars

\* the callback of a cycle has returned
CallbackReturned == pc = "none" /\ cycles > 0

\* C36: when the ingestion-complete callback has returned, every cached
\* entry has the speed trend, altitude trend and anomaly flag of the row of
\* its object in flight_states.
C36_CacheAgrees ==
    CallbackReturned =>
        \A k \in 1..Len(cache) :
            /\ cache[k].icao24 \in DOMAIN flight_states
            /\ cache[k].speed_trend =
                   flight_states[cache[k].icao24].speed_trend
            /\ cache[k].altitude_trend =
                   flight_states[cache[k].icao24].altitude_trend
            /\ cache[k].is_anomaly =
                   flight_states[cache[k].icao24].is_anomaly

\* the callback of the fetch on which the analytics were due has returned,
\* and the cached entry lacks the trend the write-back stored
C36_Counterexample ==
    /\ CallbackReturned
    /\ fetch_count % AnalyticsEvery = 0
    /\ \E k \in 1..Len(cache) :
          /\ cache[k].icao24 \in DOMAIN flight_states
          /\ cache[k].speed_trend = <<>>
          /\ flight_states[cache[k].icao24].speed_trend # <<>>

(* ---------------- stop, then start_background again ------------------- *)
\* the thread that starts the pipeline, stops it and starts it again
Caller == CHOOSE c \in Threads : TRUE

\* what the restarting caller and the loop threads leave alone
restart_rest == <<observer_location, callbacks, pc, states, api_time, session,
                  cb_idx, result, outcome, pre, visible_log, cb_calls, cache,
                  hits, misses, last_refresh, rpc, flights, new_cache, ops,
                  ret, r_pre, r_mut, last_read, kvars, tvars, avars, svars,
                local>>

\* stop() on the started pipeline: self._running = False, then the join
RestartStop ==
    /\ callers[Caller] = "idle"
    /\ thread # <<>>
    /\ ~stop_called
    /\ stop_called' = TRUE
    /\ running' = FALSE
    /\ callers' = [callers EXCEPT ![Caller] = "joining"]
    /\ UNCHANGED <<thread, loops>>
    /\ UNCHANGED tables
    /\ UNCHANGED restart_rest

\* the start_background() that follows the stop: the test of self._thread,
\* and the return when the thread is alive
RestartCheck ==
    /\ callers[Caller] = "idle"
    /\ stop_called
    /\ callers' = [callers EXCEPT ![Caller] =
                      IF thread # <<>> /\ IsAlive(thread[1]) THEN "returned"
                      ELSE "checked"]
    /\ UNCHANGED <<running, thread, loops, stop_called>>
    /\ UNCHANGED tables
    /\ UNCHANGED restart_rest

\* the start_background() that follows the stop: self._thread.start(), and
\* the return
RestartStart ==
    /\ callers[Caller] = "assigned"
    /\ stop_called
    /\ loops' = [loops EXCEPT ![thread[1]] = "started"]
    /\ callers' = [callers EXCEPT ![Caller] = "returned"]
    /\ UNCHANGED <<running, thread, stop_called>>
    /\ UNCHANGED tables
    /\ UNCHANGED restart_rest

\* the caller's calls in their order: start_background(), stop(),
\* start_background()
CallerStep ==
    \/ ~stop_called /\ thread = <<>> /\ StartBackgroundCheck(Caller)
    \/ StartBackgroundAssign(Caller)
    \/ ~stop_called /\ StartBackgroundStart(Caller)
    \/ RestartStop
    \/ JoinReturns(Caller)
    \/ RestartCheck
    \/ RestartStart

\* the start_background() that followed the stop() has returned
Restarted == callers[Caller] = "returned"

\* a step of a loop thread; until the second start_background() has
\* returned the model follows fewer than MaxCycles cycles, so that a cycle
\* is left to follow afterwards
LoopThreadStep ==
    \E k \in 1..Len(loops) :
       \/ RunContinuous(k)
       \/ (Restarted \/ ~running \/ cycles < MaxCycles - 1) /\ WhileRunning(k)
       \/ FetchAndProcess(k)

RestartNext == CallerStep \/ LoopThreadStep

\* every thread that can take a step eventually takes one
RestartSpec ==
    LoopsInit /\ [][RestartNext]_vars /\ WF_vars(LoopThreadStep)
       /\ WF_vars(CallerStep)

\* C37: once the start_background() that follows a returned stop() has
\* returned, a loop thread eventually executes a cycle with the running
\* flag true (as long as the model follows cycles), whether or not the
\* earlier loop thread had terminated when the join of stop() returned.
C37_Restart ==
    (Restarted /\ cycles < MaxCycles) ~> (running /\ Executing # {})

\* the start_background() after the stop() has returned, every loop thread
\* has returned from run_continuous and the running flag is false
C37_Counterexample ==
    /\ Restarted
    /\ ~running
    /\ loops # <<>>
    /\ \A k \in 1..Len(loops) : loops[k] = "exited"

(* ------------------------- _compute_trend ----------------------------- *)
\* n samples that change by step from one to the next
Climb(n, step) == Around(1000, [k \in 1..n |-> step * (k - 1)])

\* The series a trend is computed of, around 1000: constant ones, climbs
\* and descents of fewer than, exactly and more than MinSamples samples, the same with the first sample missing, and series
\* that do not lie on a line
TrendSeries ==
    {Around(1000, Repeat(0, n)) : n \in {MinSamples - 1, MinSamples}}
    \cup {Climb(n, step) :
             n \in {MinSamples - 1, MinSamples, 2 * MinSamples,
                    2 * MinSamples + 2},
             step \in {0 - 10, 0 - 1, 1, 10}}
    \cup {<<<<>>>> \o Climb(n, step) :
             n \in {MinSamples - 1, MinSamples},
             step \in {0 - 10, 0 - 1, 1, 10}}
    \cup {Around(1000, d) : d \in Deviations}

\* the windowed records handed to _compute_trend and the metric it is
\* computed of: the series as altitudes or as speeds, at either spacing
TrendInputs ==
    {[history |-> Samples("a1", 90000, sp, series, series,
                          Repeat(<<>>, Len(series))),
      metric |-> m] :
        series \in TrendSeries, sp \in Spacings,
        m \in {"baro_altitude", "velocity"}}

TrendInit ==
    /\ Constructed
    /\ AnalyzersConstructed
    /\ LoopsIdle
    /\ ServicesConstructed
    /\ args \in {<<a>> : a \in TrendInputs}
    /\ value = <<>>

\* self._compute_trend(timestamps[window_mask], values[window_mask])
ApplyComputeTrend ==
    /\ args # <<>>
    /\ value = <<>>
    /\ value' = <<ComputeTrend(args[1].history, args[1].metric,
                               1..Len(args[1].history))>>
    /\ UNCHANGED args
    /\ UNCHANGED fn_rest

TrendNext == ApplyComputeTrend

TrendSpec == TrendInit /\ [][TrendNext]_vars

\* The classification by the normalized slope, from the samples that are
\* not missing: n of them, t the time since the first of them, s the slope
\* of the least-squares line, sxy / sxx with the sums of the products of the
\* deviations from the means (each scaled by n), r the range of the values
SlopeClass(history, metric) ==
    LET idx == {k \in 1..Len(history) : history[k][metric] # <<>>}
        n == Cardinality(idx)
        first == CHOOSE j \in idx : \A k \in idx : j <= k
        t == [k \in 1..Len(history) |->
                 history[k].timestamp - history[first].timestamp]
        v == [k \in 1..Len(history) |->
                 IF k \in idx THEN history[k][metric][1] ELSE 0]
        dt == [k \in 1..Len(history) |-> n * t[k] - SumOver(idx, t)]
        dv == [k \in 1..Len(history) |-> n * v[k] - SumOver(idx, v)]
        sxy == SumOver(idx, [k \in 1..Len(history) |-> dt[k] * dv[k]])
        sxx == SumOver(idx, [k \in 1..Len(history) |-> dt[k] * dt[k]])
        r == MaxOver(idx, v) - MinOver(idx, v)
    IN IF n < MinSamples THEN "unknown"
       ELSE IF r = 0 THEN "stable"
       ELSE IF 10 * sxy > TrendTenths * r * sxx THEN "increasing"
       ELSE IF 10 * sxy < 0 - (TrendTenths * r * sxx) THEN "decreasing"
       ELSE "stable"

RouteCacheTTL == 3600

\* seconds between two requests to the API (_min_request_interval)
MinRequestInterval == 2

\* _max_requests_per_day
MaxRequestsPerDay == 90

\* _set_cached: the size above which entries are removed, and how many
RouteCacheLimit == 500

RouteCacheRemoved == 100

\* the callsigns the service is asked about, as the callers spell them
RawCallsigns == {"", "aal1", " AAL1", "DAL2"}

\* callsign.strip().upper()
StripUpper(raw) ==
    CASE raw \in {"aal1", " AAL1"} -> "AAL1"
      [] OTHER -> raw

\* what a request to the API can end in: a flight, no flight, a status other
\* than 200, an exception of requests
ApiOutcomes == {"flight", "no_data", "status", "exception"}

\* the instants the clock is observed at: around the rate-limit interval and
\* around the TTL of an entry cached at the start
RouteInstants ==
    {90000 + d : d \in {1, MinRequestInterval, RouteCacheTTL - 1,
                        RouteCacheTTL, RouteCacheTTL + MinRequestInterval}}

\* the position of the callsign's entry in _cache, 0 when it has none
EntryOf(c, callsign) ==
    IF \E k \in 1..Len(c) : c[k].callsign = callsign
    THEN CHOOSE k \in 1..Len(c) : c[k].callsign = callsign
    ELSE 0

\* _get_cached: the info of an entry younger than the TTL; an expired entry
\* is deleted; None (<<>>) otherwise, and also when the entry holds None
GetCached(c, callsign, t) ==
    LET k == EntryOf(c, callsign)
    IN IF k = 0 THEN [info |-> <<>>, cache |-> c]
       ELSE IF t - c[k].timestamp < RouteCacheTTL
            THEN [info |-> c[k].info, cache |-> c]
       ELSE [info |-> <<>>,
             cache |-> SubSeq(c, 1, k - 1) \o SubSeq(c, k + 1, Len(c))]

RECURSIVE RemoveOldestRoutes(_, _)
\* for key, _ in sorted(items, key=timestamp)[:n]: del self._cache[key]
RemoveOldestRoutes(c, n) ==
    IF n = 0 \/ c = <<>> THEN c
    ELSE LET k == CHOOSE j \in 1..Len(c) :
                    /\ \A m \in 1..Len(c) : c[j].timestamp <= c[m].timestamp
                    /\ \A m \in 1..(j - 1) : c[m].timestamp # c[j].timestamp
         IN RemoveOldestRoutes(SubSeq(c, 1, k - 1) \o SubSeq(c, k + 1, Len(c)),
                               n - 1)

\* _set_cached: the entry stored with the time, then the oldest entries
\* removed when the map is over its limit
SetCached(c, callsign, info, t) ==
    LET e == [callsign |-> callsign, info |-> info, timestamp |-> t]
        k == EntryOf(c, callsign)
        stored == IF k = 0 THEN Append(c, e) ELSE [c EXCEPT ![k] = e]
    IN IF Len(stored) > RouteCacheLimit
       THEN RemoveOldestRoutes(stored, RouteCacheRemoved)
       ELSE stored

\* everything but the clock, the service and the record of its last call
route_rest == <<observer_location, running, fetch_count, error_count,
                callbacks, pc, states, api_time, session, cb_idx, result,
                flight_states, position_history, cycles, stop_called, outcome,
                pre, visible_log, cb_calls, cache, hits, misses, last_refresh,
                rpc, flights, new_cache, ops, ret, r_pre, r_mut, last_read,
                kvars, tvars, lvars, avars, ticker_state, requests>>

\* the service of an application configured with or without an API key, in
\* demo mode or not, at the start of a day or one request below the daily
\* limit
RouteInit ==
    /\ Constructed
    /\ args = <<>>
    /\ value = <<>>
    /\ AnalyzersConstructed
    /\ LoopsIdle
    /\ flight_info_service \in
           [api_key : BOOLEAN, demo_mode : BOOLEAN, cache : {<<>>},
            last_request_time : {0},
            requests_today : {0, MaxRequestsPerDay - 1}]
    /\ route_ret = [callsign |-> "", val |-> <<>>, sent |-> 0,
                    negative |-> FALSE, calls |-> 0]
    /\ ticker_state = [index |-> 0, last_rotation |-> 0,
                       rotation_interval |-> RotationInterval]
    /\ requests = [t \in Threads |-> IdleRequest]

RouteTick ==
    /\ \E t \in RouteInstants : t > now /\ now' = t
    /\ UNCHANGED <<flight_info_service, route_ret>>
    /\ UNCHANGED route_rest

\* the call found an entry of the callsign that holds no route and is
\* younger than the TTL
NegativeEntry(c, callsign, t) ==
    LET k == EntryOf(c, callsign)
    IN k # 0 /\ c[k].info = <<>> /\ t - c[k].timestamp < RouteCacheTTL

\* get_route_info(callsign), with _fetch_from_api: the wait for the rate
\* limit, the request and what it ends in
GetRouteInfo(raw) ==
    /\ route_ret.calls < MaxCalls
    /\ LET svc == flight_info_service
           callsign == StripUpper(raw)
           cached == GetCached(svc.cache, callsign, now)
           done(val, n) ==
               route_ret' = [callsign |-> callsign, val |-> val,
                             sent |-> n,
                             negative |->
                                 NegativeEntry(svc.cache, callsign, now),
                             calls |-> route_ret.calls + 1]
       IN IF raw = ""
          THEN /\ done(<<>>, 0)
               /\ UNCHANGED <<now, flight_info_service>>
          ELSE IF cached.info # <<>>
          THEN /\ done(cached.info, 0)
               /\ UNCHANGED <<now, flight_info_service>>
          ELSE IF svc.demo_mode
          THEN /\ done(<<"mock">>, 0)
               /\ flight_info_service' =
                      [svc EXCEPT !.cache = SetCached(cached.cache, callsign,
                                                      <<"mock">>, now)]
               /\ UNCHANGED now
          ELSE IF ~svc.api_key \/ svc.requests_today >= MaxRequestsPerDay
          THEN /\ done(<<>>, 0)
               /\ flight_info_service' = [svc EXCEPT !.cache = cached.cache]
               /\ UNCHANGED now
          ELSE \E o \in ApiOutcomes :
                  LET t == IF now - svc.last_request_time < MinRequestInterval
                           THEN svc.last_request_time + MinRequestInterval
                           ELSE now
                      route_info == IF o = "flight" THEN <<"route">> ELSE <<>>
                  IN /\ now' = t
                     /\ done(route_info, 1)
                     /\ flight_info_service' =
                            [svc EXCEPT
                                !.last_request_time =
                                    IF o = "exception" THEN @ ELSE t,
                                !.requests_today =
                                    IF o = "exception" THEN @ ELSE @ + 1,
                                !.cache = SetCached(cached.cache, callsign,
                                                    route_info, t)]
    /\ UNCHANGED route_rest

RouteNext == RouteTick \/ \E raw \in RawCallsigns : GetRouteInfo(raw)

RouteSpec == RouteInit /\ [][RouteNext]_vars

\* the step is a get_route_info call
RouteCalled == route_ret'.calls # route_ret.calls

\* C39: a get_route_info call for a callsign whose lookup found no route
\* less than the TTL ago (the cache holds the entry of that lookup) returns
\* absent, sends no request to the API and leaves the request counter as it
\* was.
C39_FailedLookupCached ==
    [][RouteCalled /\ route_ret'.negative =>
          /\ route_ret'.val = <<>>
          /\ route_ret'.sent = 0
          /\ flight_info_service'.requests_today =
                 flight_info_service.requests_today]_vars

\* a call that found the entry of a failed lookup, younger than the TTL,
\* sent another request to the API
C39_Counterexample ==
    /\ route_ret.calls > 1
    /\ route_ret.negative
    /\ route_ret.sent = 1

(* --------------------------- GET /ticker ------------------------------ *)
\* the default of the max_distance query parameter, in km
MaxDistance == 150

\* the cache after a refresh: two airborne flights at 10 and 100 km, one at
\* an unknown distance, and one on the ground
TickerCache ==
    <<EnrichFlight("a1", [distance_km |-> <<10>>, on_ground |-> FALSE,
                          flight_phase |-> "cruise"], 90000, "refresh"),
      EnrichFlight("b2", [distance_km |-> <<100>>, on_ground |-> FALSE,
                          flight_phase |-> "cruise"], 90000, "refresh"),
      EnrichFlight("c3", [distance_km |-> <<>>, on_ground |-> FALSE,
                          flight_phase |-> "cruise"], 90000, "refresh"),
      EnrichFlight("d4", [distance_km |-> <<5>>, on_ground |-> TRUE,
                          flight_phase |-> "ground"], 90000, "refresh")>>

\* get_airborne: get_all without the flights on the ground
AirborneFlights(c) ==
    SelectSeqBy(SortByDistance(c), {e \in Range(c) : e.on_ground})

\* [f for f in all_flights if f.distance_km is not None
\*                            and f.distance_km <= max_distance]
WithinDistance(all_flights, max_distance) ==
    SelectSeqBy(all_flights,
                {e \in Range(all_flights) :
                    \/ e.distance_km = <<>>
                    \/ e.distance_km[1] > max_distance})

\* the application serving requests: the cache refreshed, the route service
\* without an API key, _ticker_state as imported
TickerInit ==
    /\ PipelineConstructed
    /\ ClientConstructed
    /\ authenticated = FALSE
    /\ cache = TickerCache
    /\ hits = 0
    /\ misses = 0
    /\ last_refresh = 90000
    /\ rpc = "idle"
    /\ flights = <<>>
    /\ new_cache = <<>>
    /\ ops = 0
    /\ ret = [op |-> "none", arg |-> "", val |-> <<>>, age |-> <<>>,
              rpc |-> "idle"]
    /\ r_pre = <<>>
    /\ r_mut = FALSE
    /\ last_read = {}
    /\ gpc = [t \in Threads |-> "idle"]
    /\ gtmp = [t \in Threads |-> 0]
    /\ gets = 0
    /\ ExtrasIdle

\* everything but the clock, _ticker_state and the requests
ticker_rest == <<observer_location, running, fetch_count, error_count,
                 callbacks, pc, states, api_time, session, cb_idx, result,
                 flight_states, position_history, cycles, stop_called, outcome,
                 pre, visible_log, cb_calls, cache, hits, misses, last_refresh,
                 rpc, flights, new_cache, ops, ret, r_pre, r_mut, last_read,
                 kvars, tvars, lvars, avars, flight_info_service, route_ret>>

\* the clock reaches the instant the next rotation is due
TickerTick ==
    /\ now < 90000 + RotationInterval
    /\ now' = 90000 + RotationInterval
    /\ UNCHANGED <<ticker_state, requests>>
    /\ UNCHANGED ticker_rest

\* the requests made so far, the ones being served included
RequestsMade ==
    SumOver(Threads, [t \in Threads |->
                         requests[t].served
                         + (IF requests[t].pc = "idle" THEN 0 ELSE 1)])

\* get_ticker_flight on thread t, up to "if not flights": the query
\* parameters, the write of rotation_interval, the filtered list, and the
\* response when it is empty
TickerBegin(t) ==
    /\ requests[t].pc = "idle"
    /\ RequestsMade < MaxCalls
    /\ \E rotation_interval \in {0, RotationInterval},
          max_distance \in {5, 50, MaxDistance} :
          LET fl == WithinDistance(AirborneFlights(cache), max_distance)
          IN /\ ticker_state' =
                    [ticker_state EXCEPT
                        !.rotation_interval = rotation_interval]
             /\ requests' =
                    [requests EXCEPT ![t] =
                        IF fl = <<>>
                        THEN [@ EXCEPT !.flights = <<>>,
                                       !.rotation_interval = rotation_interval,
                                       !.ret = <<"none">>,
                                       !.served = @ + 1]
                        ELSE [@ EXCEPT !.pc = "rotate",
                                       !.flights = fl,
                                       !.rotation_interval = rotation_interval,
                                       !.ret = <<>>]]
    /\ UNCHANGED now
    /\ UNCHANGED ticker_rest

\* if now - _ticker_state['last_rotation'] >= rotation_interval: the index
\* advanced modulo the length of this request's list
TickerRotate(t) ==
    /\ requests[t].pc = "rotate"
    /\ ticker_state' =
           IF now - ticker_state.last_rotation >= requests[t].rotation_interval
           THEN [ticker_state EXCEPT
                    !.index = (@ + 1) % Len(requests[t].flights),
                    !.last_rotation = now]
           ELSE ticker_state
    /\ requests' = [requests EXCEPT ![t].pc = "bounds"]
    /\ UNCHANGED now
    /\ UNCHANGED ticker_rest

\* if _ticker_state['index'] >= len(flights): _ticker_state['index'] = 0
TickerBounds(t) ==
    /\ requests[t].pc = "bounds"
    /\ ticker_state' =
           IF ticker_state.index >= Len(requests[t].flights)
           THEN [ticker_state EXCEPT !.index = 0]
           ELSE ticker_state
    /\ requests' = [requests EXCEPT ![t].pc = "select"]
    /\ UNCHANGED now
    /\ UNCHANGED ticker_rest

\* current_flight = flights[_ticker_state['index']], which raises IndexError
\* on an index past the list, and the response; the route service has no
\* API key, so get_route_info returns None and changes nothing
TickerSelect(t) ==
    /\ requests[t].pc = "select"
    /\ requests' =
           [requests EXCEPT
               ![t].pc = "idle",
               ![t].served = @ + 1,
               ![t].ret =
                   IF ticker_state.index < Len(requests[t].flights)
                   THEN <<requests[t].flights[ticker_state.index + 1].icao24>>
                   ELSE <<"IndexError">>]
    /\ UNCHANGED <<now, ticker_state>>
    /\ UNCHANGED ticker_rest

TickerNext ==
    \/ TickerTick
    \/ \E t \in Threads :
          \/ TickerBegin(t)
          \/ TickerRotate(t)
          \/ TickerBounds(t)
          \/ TickerSelect(t)

TickerSpec == TickerInit /\ [][TickerNext]_vars

\* C40: whatever the interleaving of the get_ticker_flight requests, also
\* of concurrent ones whose lists differ in length, the index a request
\* selects its flight with is within 0 .. len(flights) - 1 of its own list.
C40_IndexInRange ==
    \A t \in Threads :
        requests[t].pc = "select" =>
            ticker_state.index < Len(requests[t].flights)

\* a request with a non-empty list failed on an index past its list
C40_Counterexample ==
    \E t \in Threads :
        /\ requests[t].flights # <<>>
        /\ requests[t].ret = <<"IndexError">>

====
